---- MODULE Spec2Model ----
(***************************************************************************)
(* State-machine model of the govt-agent web front-end:                    *)
(*   - VectorClient   (src/src/services/VectorClient.ts, lines 41-262)     *)
(*   - ChatService    (src/src/services/VectorClient.ts, lines 278-341)    *)
(*   - RAGChatInterface.handleChatSubmit (src/unnamed/part_004)            *)
(*   - SolanaTraders page handlers       (src/unnamed/part_001)            *)
(*   - VectorSearch page handlers  (src/src/components/VectorSearch.tsx)   *)
(*                                                                         *)
(* Execution model.  JavaScript is single-threaded and cooperative: an     *)
(* async function runs without interruption up to its next `await` of a    *)
(* network request.  Every async activation started by an event (a public  *)
(* client call, a form submission, the mount effect) is a task with a      *)
(* stack of frames; a frame is one activation of a source function, with   *)
(* its position (pc), its arguments and its locals.  The code between two  *)
(* suspend points of a function is one action; the action that resumes a   *)
(* function after a network request takes the answer of the network, a     *)
(* success or a rejection (connection failure or timeout), as its input.   *)
(* Events and answers are taken only when no task is runnable              *)
(* (run-to-completion).                                                    *)
(*                                                                         *)
(* Numbers: vector_weight is kept in tenths (7 stands for 0.7).            *)
(***************************************************************************)
EXTENDS Integers, Sequences, FiniteSets, TLC

VARIABLES
    configuredUrl,   \* the baseUrl the VectorClient was constructed with
    apiBaseUrl,      \* VectorClient.apiBaseUrl
    usingFallback,   \* VectorClient.usingFallback
    tasks,           \* the async activations started so far
    primaryFailed,   \* history: a request to the configured URL was rejected
    chatMessages,    \* RAGChatInterface: chat history shown
    currentMessage,  \* RAGChatInterface: text in the input box
    isLoading,       \* RAGChatInterface: turn in flight
    isStreaming,     \* RAGChatInterface: placeholder being filled
    currentSources,  \* RAGChatInterface: citations of the last turn
    searchQuery,     \* search page: text in the search box
    searchResults,   \* search page: results shown
    isSearching,     \* search page: search in flight
    searchError,     \* search page: message shown (NoError = null)
    searchMode,      \* search page: 'hybrid' | 'vector' | 'kg'
    vectorWeight,    \* search page: slider value, in tenths
    mergeMethod,     \* search page: 'weighted' | 'interleave' | 'separate'
    searchLimit,     \* search page: max results
    apiCapabilities, \* search page: what /api/debug reported
    page,            \* the page the router has rendered
    mounted,         \* the pages whose mount effect has run
    vsSearchQuery,   \* VectorSearch page: text in the search box
    vsSearchResults, \* VectorSearch page: results shown
    vsIsSearching,   \* VectorSearch page: search in flight
    vsSearchError,   \* VectorSearch page: message shown
    vsChatMessages,  \* VectorSearch page: chat history shown
    vsCurrentMessage,\* VectorSearch page: text in the chat input
    vsIsLoading,     \* VectorSearch page: chat turn in flight
    hybridParams,    \* hybrid search: the params searchHybrid was called with
    hybridBody,      \* hybrid search: the body POST /search/hybrid received
    vectorResults,   \* hybrid search: the vector retrieval, best first
    graphResults,    \* hybrid search: the graph retrieval, best first
    merged,          \* hybrid search: the merged results returned
    hybridPc         \* hybrid search: "idle" | "retrieved" | "merged"

clientVars == <<configuredUrl, apiBaseUrl, usingFallback>>
ragVars    == <<chatMessages, currentMessage, isLoading, isStreaming, currentSources>>
pageVars   == <<searchQuery, searchResults, isSearching, searchError,
                searchMode, vectorWeight, mergeMethod, searchLimit,
                apiCapabilities, page, mounted>>
vsVars     == <<vsSearchQuery, vsSearchResults, vsIsSearching, vsSearchError,
                vsChatMessages, vsCurrentMessage, vsIsLoading>>
uiVars     == <<ragVars, pageVars, vsVars>>
hybridVars == <<hybridParams, hybridBody, vectorResults, graphResults, merged,
                hybridPc>>
vars == <<clientVars, tasks, primaryFailed, uiVars, hybridVars>>

----------------------------------------------------------------------------
(* Bounds of the model *)

\* number of async activations (calls, submissions) started in one session
MaxTasks == 2

\* the names of the activations
TaskIds == 1..MaxTasks

\* number of activations when a search is submitted while the page is mounting
MaxSearchTasks == 3

SearchTaskIds == 1..MaxSearchTasks

----------------------------------------------------------------------------
(* Values *)

LOCAL_URL  == "http://localhost:8000"
REMOTE_URL == "https://api.example.gov"
OTHER_LOCAL_URL == "http://localhost:3000"

\* the base URLs a client is constructed with in this model
ConfiguredUrls == {REMOTE_URL, LOCAL_URL, OTHER_LOCAL_URL}

\* String.prototype.includes('localhost') over the URLs of the model
IncludesLocalhost(url) == url \in {LOCAL_URL, OTHER_LOCAL_URL}

UndefNum == -1             \* an omitted numeric parameter
UndefStr == "undefined"    \* an omitted string parameter

\* JavaScript `a || b` on numbers and on strings
OrNum(a, b) == IF a = UndefNum \/ a = 0 THEN b ELSE a
OrStr(a, b) == IF a = UndefStr \/ a = "" THEN b ELSE a

\* mutant: a trim that leaves white space in place
Trim_KeepsSpace(str) == str

\* String.prototype.trim() over the input texts of the model
Trim(s) == IF s \in {"", " "} THEN "" ELSE s

\* a search result with each of its optional score fields present (in tenths) or
\* absent: one record for every combination
ScoreIn(i, bit, score) == IF (i \div bit) % 2 = 1 THEN score ELSE UndefNum
Cards ==
    [i \in 1..8 |->
        [doc_id           |-> i,
         combined_score   |-> ScoreIn(i - 1, 1, 7),
         similarity_score |-> ScoreIn(i - 1, 2, 9),
         relevance_score  |-> ScoreIn(i - 1, 4, 8)]]

\* result lists a search endpoint answers with (documents named by number)
ResultLists == {<<>>, Cards}
\* texts the chat endpoint answers with
Replies == {"", "answer"}
\* what /api/debug reports
Capabilities == {[vector_search_available |-> v, knowledge_graph_available |-> k] :
                    v \in BOOLEAN, k \in BOOLEAN}

\* A text (message content, error message shown) is the sequence of its non-empty
\* pieces, so that concatenation is \o and the empty string is <<>>.
Text(str) == IF str = "" THEN <<>> ELSE <<str>>

NoError == <<"null">>      \* searchError = null
NoBody  == <<>>

\* the query the search page starts with
DefaultQuery == "economic data and statistics"

\* the texts a user types into an input box
Inputs == {"", " ", "hi"}

----------------------------------------------------------------------------
(* Tasks, frames, requests *)

Frame(fn, args) == [fn |-> fn, pc |-> "entry", args |-> args, loc |-> <<>>]

NoReq == [method |-> "none", url |-> "", path |-> "", body |-> NoBody, timeout |-> 0]
NoRet == [ok |-> TRUE, val |-> <<>>]

\* a new task running `fn(args)`; `op` names the event that started it
NewTask(op, fn, args) ==
    [op |-> op, status |-> "run", stack |-> <<Frame(fn, args)>>,
     req |-> NoReq, ret |-> NoRet, result |-> NoRet,
     sent |-> <<>>, got |-> <<>>, errs |-> <<>>,
     afterFail |-> primaryFailed, probeFailedAt |-> 0, searchNo |-> 0]

Top(T) == Head(T.stack)

\* task t is at label pc of function fn
At(t, fn, pc) ==
    /\ t \in 1..Len(tasks)
    /\ tasks[t].status = "run"
    /\ Top(tasks[t]).fn = fn
    /\ Top(tasks[t]).pc = pc

\* no task can run: the event loop takes the next event
Idle == \A t \in 1..Len(tasks) : tasks[t].status # "run"

\* the running function moves to label pc and keeps locals loc
TGoto(T, pc, loc) ==
    [T EXCEPT !.stack = <<[Top(T) EXCEPT !.pc = pc, !.loc = loc]>> \o Tail(T.stack)]

\* `await fn(args)`: the caller resumes at label pc
TCall(T, pc, loc, fn, args) ==
    LET U == TGoto(T, pc, loc)
    IN  [U EXCEPT !.stack = <<Frame(fn, args)>> \o U.stack]

\* `await axios.<method>(url + path, body)`: the caller resumes at label pc
TSend(T, pc, loc, rq) ==
    LET U == TGoto(T, pc, loc)
    IN  [U EXCEPT !.status = "wait", !.req = rq, !.sent = Append(@, rq)]

\* the running function returns (ok) or throws (~ok) val to its caller
TFinish(T, ok, val) ==
    LET rest == Tail(T.stack)
        r    == [ok |-> ok, val |-> val]
    IN  IF rest = <<>>
        THEN \* the call settles with r; the histories of its run are dropped,
             \* but for the errors behind a rejection
             [T EXCEPT !.stack = rest, !.status = "done", !.result = r, !.ret = NoRet,
                       !.sent = <<>>, !.got = <<>>, !.errs = IF ok THEN <<>> ELSE @,
                       !.afterFail = FALSE, !.probeFailedAt = 0]
        ELSE [T EXCEPT !.stack = rest, !.ret = r]

TReturn(T, val) == TFinish(T, TRUE, val)
TThrow(T, err)  == TFinish(T, FALSE, err)

Request(method, url, path, body, timeout) ==
    [method |-> method, url |-> url, path |-> path, body |-> body, timeout |-> timeout]

----------------------------------------------------------------------------
(* The network *)

\* what the endpoint at `path` answers with on success
ResponseData(path) ==
    CASE path = "/api/health"        -> {[status |-> "ok", timestamp |-> "t"]}
      [] path = "/api/debug"         -> {[search_capabilities |-> c] : c \in Capabilities}
      [] path = "/api/search"        -> ResultLists
      [] path = "/api/vector-search" -> ResultLists
      [] path = "/api/kg-search"     -> ResultLists
      [] path = "/api/chat"          -> {[response |-> r] : r \in Replies}

\* the rejection of the n-th request of task t (an Error object of its own)
\* its message is axios's: a timeout for the probe, a network error otherwise
ErrorOf(t, n, rq) ==
    [task |-> t, n |-> n, url |-> rq.url, path |-> rq.path,
     message |-> IF rq.timeout > 0 THEN "timeout of 3000ms exceeded" ELSE "Network Error"]

\* the outcomes of the outstanding request of task t: resolved with data, or rejected
Answers(t) ==
    {[ok |-> TRUE, val |-> d] : d \in ResponseData(tasks[t].req.path)}
    \cup {[ok |-> FALSE, val |-> ErrorOf(t, Len(tasks[t].sent), tasks[t].req)]}

\* task t waits at label pc of function fn for the answer to its request
Awaits(t, fn, pc) ==
    /\ Idle
    /\ t \in 1..Len(tasks)
    /\ tasks[t].status = "wait"
    /\ Top(tasks[t]).fn = fn
    /\ Top(tasks[t]).pc = pc

\* task T with the answer r delivered
Recv(T, r) ==
    [T EXCEPT !.status = "run", !.req = NoReq, !.ret = r, !.got = Append(@, r),
              !.errs = IF r.ok THEN @ ELSE Append(@, r.val)]

\* history: answer r to the request of task t is a rejection by the primary
NotePrimaryFailure(t, r) ==
    primaryFailed' =
        (primaryFailed \/ (/\ ~r.ok
                           /\ tasks[t].req.url = configuredUrl
                           /\ ~IncludesLocalhost(configuredUrl)))

----------------------------------------------------------------------------
(* VectorClient *)

\* the condition under which switchToLocalIfNeeded probes the configured URL
NeedsProbe == ~usingFallback /\ ~IncludesLocalhost(apiBaseUrl)

\* mutant: the flag is set but the base URL is left as it was
SwitchToLocal_KeepUrl ==
    /\ apiBaseUrl' = apiBaseUrl
    /\ usingFallback' = TRUE

\* mutant: the base URL is rewritten but the flag is left as it was
SwitchToLocal_UrlOnly ==
    /\ apiBaseUrl' = LOCAL_URL
    /\ usingFallback' = usingFallback

\* mutant: a switch that is not idempotent, the second one switches back
SwitchToLocal_Toggle ==
    /\ apiBaseUrl' = IF usingFallback THEN configuredUrl ELSE LOCAL_URL
    /\ usingFallback' = ~usingFallback

\* this.apiBaseUrl = 'http://localhost:8000'; this.usingFallback = true
SwitchToLocal ==
    /\ apiBaseUrl' = LOCAL_URL
    /\ usingFallback' = TRUE

\* mutant: the request goes to the URL given at construction
ApiRequest_Configured(method, path, body) ==
    Request(method, configuredUrl, path, body, 0)

\* the request a public operation sends once switchToLocalIfNeeded has returned:
\* its URL is read from this.apiBaseUrl at that moment
ApiRequest(method, path, body) == Request(method, apiBaseUrl, path, body, 0)

\* switchToLocalIfNeeded, up to the probe
switchToLocalIfNeeded_entry(t) ==
    /\ At(t, "switchToLocalIfNeeded", "entry")
    /\ IF NeedsProbe
       THEN tasks' = [tasks EXCEPT ![t] =
                TSend(@, "probed", <<>>,
                      Request("GET", apiBaseUrl, "/api/health", NoBody, 3000))]
       ELSE tasks' = [tasks EXCEPT ![t] = TReturn(@, <<>>)]
    /\ UNCHANGED <<clientVars, primaryFailed, uiVars, hybridVars>>

\* switchToLocalIfNeeded, after the probe: a rejection is caught and switches
switchToLocalIfNeeded_probed(t) ==
    /\ Awaits(t, "switchToLocalIfNeeded", "probed")
    /\ \E r \in Answers(t) :
          /\ NotePrimaryFailure(t, r)
          /\ IF r.ok
             THEN /\ tasks' = [tasks EXCEPT ![t] = TReturn(Recv(@, r), <<>>)]
                  /\ UNCHANGED <<apiBaseUrl, usingFallback>>
             ELSE /\ SwitchToLocal
                  /\ tasks' = [tasks EXCEPT ![t] =
                        TReturn([Recv(@, r) EXCEPT !.probeFailedAt = Len(tasks[t].sent)], <<>>)]
    /\ UNCHANGED <<configuredUrl, uiVars, hybridVars>>

\* the first statement of a public operation: await this.switchToLocalIfNeeded()
AwaitSwitch(t, fn) ==
    /\ At(t, fn, "entry")
    /\ tasks' = [tasks EXCEPT ![t] =
                    TCall(@, "switched", <<>>, "switchToLocalIfNeeded", <<>>)]
    /\ UNCHANGED <<clientVars, primaryFailed, uiVars, hybridVars>>

\* one request to `path` with `body`, sent when switchToLocalIfNeeded is back
SendAfterSwitch(t, fn, method, path, body) ==
    /\ At(t, fn, "switched")
    /\ tasks' = [tasks EXCEPT ![t] =
                    IF @.ret.ok
                    THEN TSend(@, "sent", <<>>, ApiRequest(method, path, body))
                    ELSE TThrow(@, @.ret.val)]
    /\ UNCHANGED <<clientVars, primaryFailed, uiVars, hybridVars>>

\* the last step of a public operation: return response.data, or log and rethrow
ReturnData(t, fn) ==
    /\ Awaits(t, fn, "sent")
    /\ \E r \in Answers(t) :
          /\ NotePrimaryFailure(t, r)
          /\ tasks' = [tasks EXCEPT ![t] =
                IF r.ok THEN TReturn(Recv(@, r), r.val) ELSE TThrow(Recv(@, r), r.val)]
    /\ UNCHANGED <<clientVars, uiVars, hybridVars>>

healthCheck_entry(t) == AwaitSwitch(t, "healthCheck")

healthCheck_switched(t) ==
    SendAfterSwitch(t, "healthCheck", "GET", "/api/health", NoBody)

\* mutant: the error of the first attempt is thrown
HealthCheckRetryError_Original(error, fallbackError) == error

\* the error healthCheck throws when the retry on the fallback URL fails too
HealthCheckRetryError(error, fallbackError) == fallbackError

\* healthCheck, after its GET: on a rejection, retry once on the fallback URL
healthCheck_sent(t) ==
    /\ Awaits(t, "healthCheck", "sent")
    /\ \E r \in Answers(t) :
          /\ NotePrimaryFailure(t, r)
          /\ IF r.ok
             THEN /\ tasks' = [tasks EXCEPT ![t] = TReturn(Recv(@, r), r.val)]
                  /\ UNCHANGED <<apiBaseUrl, usingFallback>>
             ELSE IF ~usingFallback
                  THEN /\ SwitchToLocal
                       /\ tasks' = [tasks EXCEPT ![t] =
                            TSend(Recv(@, r), "retried", [error |-> r.val],
                                  Request("GET", apiBaseUrl', "/api/health", NoBody, 0))]
                  ELSE /\ tasks' = [tasks EXCEPT ![t] = TThrow(Recv(@, r), r.val)]
                       /\ UNCHANGED <<apiBaseUrl, usingFallback>>
    /\ UNCHANGED <<configuredUrl, uiVars, hybridVars>>

\* healthCheck, after the retry
healthCheck_retried(t) ==
    /\ Awaits(t, "healthCheck", "retried")
    /\ \E r \in Answers(t) :
          /\ NotePrimaryFailure(t, r)
          /\ tasks' = [tasks EXCEPT ![t] =
                IF r.ok
                THEN TReturn(Recv(@, r), r.val)
                ELSE TThrow(Recv(@, r), HealthCheckRetryError(Top(@).loc.error, r.val))]
    /\ UNCHANGED <<clientVars, uiVars, hybridVars>>

getDebugInfo_entry(t) == AwaitSwitch(t, "getDebugInfo")
getDebugInfo_switched(t) ==
    SendAfterSwitch(t, "getDebugInfo", "GET", "/api/debug", NoBody)
getDebugInfo_sent(t) == ReturnData(t, "getDebugInfo")

\* the body searchHybrid posts for `params`
HybridBody(params) ==
    [query         |-> params.query,
     limit         |-> OrNum(params.limit, 5),
     vector_weight |-> OrNum(params.vector_weight, 5),
     merge_method  |-> OrStr(params.merge_method, "weighted")]

\* the body searchVectorOnly and searchKnowledgeGraphOnly post for `params`
PlainBody(params) ==
    [query |-> params.query, limit |-> OrNum(params.limit, 5)]

searchHybrid_entry(t) == AwaitSwitch(t, "searchHybrid")
searchHybrid_switched(t) ==
    /\ t \in 1..Len(tasks)
    /\ SendAfterSwitch(t, "searchHybrid", "POST", "/api/search",
                       HybridBody(Top(tasks[t]).args))
searchHybrid_sent(t) == ReturnData(t, "searchHybrid")

searchVectorOnly_entry(t) == AwaitSwitch(t, "searchVectorOnly")
searchVectorOnly_switched(t) ==
    /\ t \in 1..Len(tasks)
    /\ SendAfterSwitch(t, "searchVectorOnly", "POST", "/api/vector-search",
                       PlainBody(Top(tasks[t]).args))
searchVectorOnly_sent(t) == ReturnData(t, "searchVectorOnly")

searchKnowledgeGraphOnly_entry(t) == AwaitSwitch(t, "searchKnowledgeGraphOnly")
searchKnowledgeGraphOnly_switched(t) ==
    /\ t \in 1..Len(tasks)
    /\ SendAfterSwitch(t, "searchKnowledgeGraphOnly", "POST", "/api/kg-search",
                       PlainBody(Top(tasks[t]).args))
searchKnowledgeGraphOnly_sent(t) == ReturnData(t, "searchKnowledgeGraphOnly")

\* a SearchParams object; UndefNum and UndefStr stand for omitted members
ParamsOf(query, limit, vector_weight, merge_method) ==
    [query |-> query, limit |-> limit, vector_weight |-> vector_weight,
     merge_method |-> merge_method]

\* a function whose body is `return callee(...)`: hands on what the callee settled with
ReturnCall(t, fn, pc) ==
    /\ At(t, fn, pc)
    /\ tasks' = [tasks EXCEPT ![t] =
                    IF @.ret.ok THEN TReturn(@, @.ret.val) ELSE TThrow(@, @.ret.val)]
    /\ UNCHANGED <<clientVars, primaryFailed, uiVars, hybridVars>>

\* searchVectors(query, limit) calls searchHybrid({query, limit})
searchVectors_entry(t) ==
    /\ At(t, "searchVectors", "entry")
    /\ tasks' = [tasks EXCEPT ![t] =
          TCall(@, "searched", <<>>, "searchHybrid",
                ParamsOf(Top(@).args.query, Top(@).args.limit, UndefNum, UndefStr))]
    /\ UNCHANGED <<clientVars, primaryFailed, uiVars, hybridVars>>
searchVectors_searched(t) == ReturnCall(t, "searchVectors", "searched")

sendChatMessage_entry(t) == AwaitSwitch(t, "sendChatMessage")

\* sendChatMessage: first, get relevant context from the hybrid search
sendChatMessage_switched(t) ==
    /\ At(t, "sendChatMessage", "switched")
    /\ tasks' = [tasks EXCEPT ![t] =
          IF @.ret.ok
          THEN TCall(@, "searched", <<>>, "searchHybrid",
                     ParamsOf(Top(@).args.query, 3, 7, UndefStr))
          ELSE TThrow(@, @.ret.val)]
    /\ UNCHANGED <<clientVars, primaryFailed, uiVars, hybridVars>>

\* the body sendChatMessage posts to /api/chat
ChatBody(query, chatHistory, context) ==
    [query |-> query, chat_history |-> chatHistory, context |-> context]

\* sendChatMessage: then, send the chat request with the context
sendChatMessage_searched(t) ==
    /\ At(t, "sendChatMessage", "searched")
    /\ tasks' = [tasks EXCEPT ![t] =
          IF @.ret.ok
          THEN TSend(@, "sent", [searchResults |-> @.ret.val],
                     ApiRequest("POST", "/api/chat",
                                ChatBody(Top(@).args.query, Top(@).args.chatHistory,
                                         @.ret.val)))
          ELSE TThrow(@, @.ret.val)]
    /\ UNCHANGED <<clientVars, primaryFailed, uiVars, hybridVars>>

\* sendChatMessage: return both the response and the sources
sendChatMessage_sent(t) ==
    /\ Awaits(t, "sendChatMessage", "sent")
    /\ \E r \in Answers(t) :
          /\ NotePrimaryFailure(t, r)
          /\ tasks' = [tasks EXCEPT ![t] =
                IF r.ok
                THEN TReturn(Recv(@, r), [response |-> r.val.response,
                                          sources  |-> Top(@).loc.searchResults])
                ELSE TThrow(Recv(@, r), r.val)]
    /\ UNCHANGED <<clientVars, uiVars, hybridVars>>

----------------------------------------------------------------------------
(* ChatService *)

\* ChatService.searchLimit and ChatService.vectorWeight (in tenths)
searchLimitOfChat == 3
vectorWeightOfChat == 7

\* retrieveContext: hybrid search with the service's parameters
retrieveContext_entry(t) ==
    /\ At(t, "retrieveContext", "entry")
    /\ tasks' = [tasks EXCEPT ![t] =
          TCall(@, "searched", <<>>, "searchHybrid",
                ParamsOf(Top(@).args.query, searchLimitOfChat, vectorWeightOfChat,
                         "weighted"))]
    /\ UNCHANGED <<clientVars, primaryFailed, uiVars, hybridVars>>

\* what retrieveContext returns when its search was rejected
ContextOnError == <<>>

\* retrieveContext: the results, or [] when the search failed
retrieveContext_searched(t) ==
    /\ At(t, "retrieveContext", "searched")
    /\ tasks' = [tasks EXCEPT ![t] =
          IF @.ret.ok THEN TReturn(@, @.ret.val) ELSE TReturn(@, ContextOnError)]
    /\ UNCHANGED <<clientVars, primaryFailed, uiVars, hybridVars>>

\* generateResponse: first retrieve relevant context from the knowledge base
generateResponse_entry(t) ==
    /\ At(t, "generateResponse", "entry")
    /\ tasks' = [tasks EXCEPT ![t] =
          TCall(@, "retrieved", <<>>, "retrieveContext", [query |-> Top(@).args.query])]
    /\ UNCHANGED <<clientVars, primaryFailed, uiVars, hybridVars>>

\* generateResponse: now send the query and the chat history to the chat endpoint
generateResponse_retrieved(t) ==
    /\ At(t, "generateResponse", "retrieved")
    /\ tasks' = [tasks EXCEPT ![t] =
          TCall(@, "answered", [contextDocs |-> @.ret.val], "sendChatMessage",
                [query |-> Top(@).args.query, chatHistory |-> Top(@).args.chatHistory])]
    /\ UNCHANGED <<clientVars, primaryFailed, uiVars, hybridVars>>

GenerateErrorPrefix ==
    "I'm sorry, I encountered an error while processing your request: "

\* the ChatResponse of a turn whose chat call answered `response`
AnsweredResponse(response, contextDocs) ==
    [message |-> [role |-> "assistant", content |-> Text(response.response)],
     sources |-> contextDocs]

\* mutant: the error response keeps the retrieved documents as sources
ErrorResponse_KeepSources(error, contextDocs) ==
    [message |-> [role |-> "assistant",
                  content |-> Text(GenerateErrorPrefix) \o Text(error.message)],
     sources |-> contextDocs]

\* mutant: the error response has an empty content
ErrorResponse_Blank(error, contextDocs) ==
    [message |-> [role |-> "assistant", content |-> Text("")], sources |-> <<>>]

\* the ChatResponse of a turn in which `error` was thrown
ErrorResponse(error, contextDocs) ==
    [message |-> [role |-> "assistant",
                  content |-> Text(GenerateErrorPrefix) \o Text(error.message)],
     sources |-> <<>>]

\* generateResponse: return the message and the source documents, or the error message
generateResponse_answered(t) ==
    /\ At(t, "generateResponse", "answered")
    /\ tasks' = [tasks EXCEPT ![t] =
          IF @.ret.ok
          THEN TReturn(@, AnsweredResponse(@.ret.val, Top(@).loc.contextDocs))
          ELSE TReturn(@, ErrorResponse(@.ret.val, Top(@).loc.contextDocs))]
    /\ UNCHANGED <<clientVars, primaryFailed, uiVars, hybridVars>>

----------------------------------------------------------------------------
(* The pages *)

Pages == {"SolanaTraders", "VectorSearch"}

\* the router renders one of the pages; only its controls take events
render ==
    /\ Idle
    /\ page = "none"
    /\ page' \in Pages
    /\ UNCHANGED <<clientVars, tasks, primaryFailed, ragVars, searchQuery, searchResults,
                   isSearching, searchError, searchMode, vectorWeight, mergeMethod,
                   searchLimit, apiCapabilities, mounted, vsVars, hybridVars>>

----------------------------------------------------------------------------
(* The score badge of a displayed result *)

\* ResultCard: the first of combined_score, similarity_score and relevance_score
\* that is not undefined, or the plain 'Result' badge
ScoreBadge(result) ==
    IF result.combined_score # UndefNum
    THEN [text |-> "% combined", score |-> result.combined_score]
    ELSE IF result.similarity_score # UndefNum
    THEN [text |-> "% match", score |-> result.similarity_score]
    ELSE IF result.relevance_score # UndefNum
    THEN [text |-> "% relevant", score |-> result.relevance_score]
    ELSE [text |-> "Result", score |-> UndefNum]

\* undefined * 100
NaN == -2

\* the result list of the VectorSearch page: (result.similarity_score * 100)% match
VectorSearch_ScoreBadge(result) ==
    [text  |-> "% match",
     score |-> IF result.similarity_score = UndefNum THEN NaN
               ELSE result.similarity_score]

----------------------------------------------------------------------------
(* RAGChatInterface *)

\* mutant: the chat form stays enabled during a turn
ChatInputDisabled_Never == FALSE

\* the chat input and its submit button carry disabled={isLoading}
ChatInputDisabled == isLoading

\* onChange of the chat input, which is disabled while a turn is loading
setCurrentMessage ==
    /\ Idle
    /\ page = "SolanaTraders"
    /\ ~ChatInputDisabled
    /\ \E text \in Inputs : text # currentMessage /\ currentMessage' = text
    /\ UNCHANGED <<clientVars, tasks, primaryFailed, chatMessages, isLoading,
                   isStreaming, currentSources, pageVars, vsVars, hybridVars>>

PlaceholderMessage == [role |-> "assistant", content |-> Text("")]

\* prev => [...prev.slice(0, prev.length - 1), message]
ReplaceLast(prev, message) == Append(SubSeq(prev, 1, Len(prev) - 1), message)

\* mutant: the slice drops the user's message together with the placeholder
PutAssistantMessage_DropsUserMessage(prev, message) ==
    Append(SubSeq(prev, 1, Len(prev) - 2), message)

\* mutant: the assistant message is appended and the placeholder stays
PutAssistantMessage_KeepsPlaceholder(prev, message) == Append(prev, message)

\* how RAGChatInterface puts the turn's assistant message into the history
PutAssistantMessage(prev, message) == ReplaceLast(prev, message)

\* the form is submitted (its controls are disabled while a turn is loading):
\* handleChatSubmit up to `await chatService.generateResponse(...)`
handleChatSubmit_entry ==
    /\ Idle
    /\ page = "SolanaTraders"
    /\ ~ChatInputDisabled
    /\ Len(tasks) < MaxTasks
    /\ IF Trim(currentMessage) = ""
       THEN /\ tasks' = Append(tasks, TReturn(NewTask("handleChatSubmit",
                                                     "handleChatSubmit", <<>>), <<>>))
            /\ UNCHANGED ragVars
       ELSE LET userMessage == [role |-> "user", content |-> Text(currentMessage)]
                chatHistory == chatMessages
            IN  /\ chatMessages' = Append(Append(chatMessages, userMessage),
                                          PlaceholderMessage)
                /\ currentMessage' = ""
                /\ isLoading' = TRUE
                /\ isStreaming' = TRUE
                /\ tasks' = Append(tasks,
                     TCall(NewTask("handleChatSubmit", "handleChatSubmit", <<>>),
                           "generated",
                           [userMessage |-> userMessage, chatHistory |-> chatHistory],
                           "generateResponse",
                           [query |-> userMessage.content, chatHistory |-> chatHistory]))
                /\ UNCHANGED currentSources
    /\ UNCHANGED <<clientVars, primaryFailed, pageVars, vsVars, hybridVars>>

\* the flags after the finally block of handleChatSubmit
ChatFinally ==
    /\ isLoading' = FALSE
    /\ isStreaming' = FALSE

\* handleChatSubmit after generateResponse: replace the placeholder, store the
\* sources; finally clear the flags
handleChatSubmit_generated(t) ==
    /\ At(t, "handleChatSubmit", "generated")
    /\ IF tasks[t].ret.ok
       THEN /\ chatMessages' = PutAssistantMessage(chatMessages, tasks[t].ret.val.message)
            /\ currentSources' = tasks[t].ret.val.sources
       ELSE /\ chatMessages' = PutAssistantMessage(chatMessages,
                  [role |-> "assistant",
                   content |-> Text("Error: ") \o Text(tasks[t].ret.val.message)])
            /\ UNCHANGED currentSources
    /\ ChatFinally
    /\ tasks' = [tasks EXCEPT ![t] = TReturn(@, <<>>)]
    /\ UNCHANGED <<clientVars, primaryFailed, currentMessage, pageVars, vsVars, hybridVars>>

----------------------------------------------------------------------------
(* SolanaTraders: the search page that hosts RAGChatInterface *)

\* onChange of the search box, which is disabled while a search is in flight
setSearchQuery ==
    /\ Idle
    /\ page = "SolanaTraders"
    /\ ~isSearching
    /\ \E text \in Inputs : text # searchQuery /\ searchQuery' = text
    /\ UNCHANGED <<clientVars, tasks, primaryFailed, ragVars, searchResults, isSearching,
                   searchError, searchMode, vectorWeight, mergeMethod, searchLimit,
                   apiCapabilities, page, mounted, vsVars, hybridVars>>

\* the search mode tabs SearchOptions renders for the given capabilities
ModesOffered(caps) ==
    (IF caps.vector_search_available /\ caps.knowledge_graph_available
     THEN {"hybrid"} ELSE {})
    \cup (IF caps.vector_search_available THEN {"vector"} ELSE {})
    \cup (IF caps.knowledge_graph_available THEN {"kg"} ELSE {})

\* a click on one of the search mode tabs
setSearchMode ==
    /\ Idle
    /\ page = "SolanaTraders"
    /\ \E mode \in ModesOffered(apiCapabilities) : mode # searchMode /\ searchMode' = mode
    /\ UNCHANGED <<clientVars, tasks, primaryFailed, ragVars, searchQuery, searchResults,
                   isSearching, searchError, vectorWeight, mergeMethod, searchLimit,
                   apiCapabilities, page, mounted, vsVars, hybridVars>>

\* positions of the vector weight slider (0 to 1 in steps of 0.1), in tenths
WeightChoices == {0, 3, 10}
\* positions of the result limit slider (1 to 20)
LimitChoices == {1, 20}
\* the options of the merge method selector
MergeMethods == {"weighted", "interleave", "separate"}

\* the vector weight slider, shown for hybrid search
setVectorWeight ==
    /\ Idle
    /\ page = "SolanaTraders"
    /\ searchMode = "hybrid"
    /\ \E weight \in WeightChoices : weight # vectorWeight /\ vectorWeight' = weight
    /\ UNCHANGED <<clientVars, tasks, primaryFailed, ragVars, searchQuery, searchResults,
                   isSearching, searchError, searchMode, mergeMethod, searchLimit,
                   apiCapabilities, page, mounted, vsVars, hybridVars>>

\* the merge method selector, shown for hybrid search
setMergeMethod ==
    /\ Idle
    /\ page = "SolanaTraders"
    /\ searchMode = "hybrid"
    /\ \E method \in MergeMethods : method # mergeMethod /\ mergeMethod' = method
    /\ UNCHANGED <<clientVars, tasks, primaryFailed, ragVars, searchQuery, searchResults,
                   isSearching, searchError, searchMode, vectorWeight, searchLimit,
                   apiCapabilities, page, mounted, vsVars, hybridVars>>

\* the result limit slider
setSearchLimit ==
    /\ Idle
    /\ page = "SolanaTraders"
    /\ \E limit \in LimitChoices : limit # searchLimit /\ searchLimit' = limit
    /\ UNCHANGED <<clientVars, tasks, primaryFailed, ragVars, searchQuery, searchResults,
                   isSearching, searchError, searchMode, vectorWeight, mergeMethod,
                   apiCapabilities, page, mounted, vsVars, hybridVars>>

\* mutant: the 'kg' case calls the vector-only search
SearchOperation_KgAsVector(mode) ==
    CASE mode = "hybrid" -> "searchHybrid"
      [] mode = "vector" -> "searchVectorOnly"
      [] mode = "kg"     -> "searchVectorOnly"

\* the client operation handleSearch calls in each search mode
SearchOperation(mode) ==
    CASE mode = "hybrid" -> "searchHybrid"
      [] mode = "vector" -> "searchVectorOnly"
      [] mode = "kg"     -> "searchKnowledgeGraphOnly"

\* the search parameters of the first render, which loadInitialResults closes over
InitialSearchParams == ParamsOf(DefaultQuery, 5, 5, "weighted")

\* the effect run on mount starts two promise chains, each up to its first await
mountEffect ==
    /\ Idle
    /\ page = "SolanaTraders"
    /\ "SolanaTraders" \notin mounted
    /\ Len(tasks) + 2 <= MaxTasks
    /\ mounted' = mounted \cup {"SolanaTraders"}
    /\ tasks' = tasks \o
          <<TCall(NewTask("mountEffect", "mountEffect", <<>>),
                  "capabilities", <<>>, "getDebugInfo", <<>>),
            TCall(NewTask("mountEffect", "mountEffect", <<>>),
                  "healthChecked", <<>>, "healthCheck", <<>>)>>
    /\ UNCHANGED <<clientVars, primaryFailed, ragVars, searchQuery, searchResults,
                   isSearching, searchError, searchMode, vectorWeight, mergeMethod,
                   searchLimit, apiCapabilities, page, vsVars, hybridVars>>

\* mutant: the reported capabilities do not change the mode
DefaultModeFor_KeepsMode(caps, mode) == mode

\* the search mode the page falls back to when only one kind of search is available
DefaultModeFor(caps, mode) ==
    IF ~caps.vector_search_available /\ caps.knowledge_graph_available THEN "kg"
    ELSE IF caps.vector_search_available /\ ~caps.knowledge_graph_available THEN "vector"
    ELSE mode

\* getDebugInfo().then(set the capabilities and the mode).catch(log)
mountEffect_capabilities(t) ==
    /\ At(t, "mountEffect", "capabilities")
    /\ IF tasks[t].ret.ok
       THEN /\ apiCapabilities' = tasks[t].ret.val.search_capabilities
            /\ searchMode' = DefaultModeFor(tasks[t].ret.val.search_capabilities, searchMode)
       ELSE UNCHANGED <<apiCapabilities, searchMode>>
    /\ tasks' = [tasks EXCEPT ![t] = TReturn(@, <<>>)]
    /\ UNCHANGED <<clientVars, primaryFailed, ragVars, searchQuery, searchResults,
                   isSearching, searchError, vectorWeight, mergeMethod, searchLimit,
                   page, mounted, vsVars, hybridVars>>

\* healthCheck().then(() => loadInitialResults()).catch(setSearchError(...))
mountEffect_healthChecked(t) ==
    /\ At(t, "mountEffect", "healthChecked")
    /\ IF tasks[t].ret.ok
       THEN /\ tasks' = [tasks EXCEPT ![t] =
                   TCall(@, "loaded", <<>>, "loadInitialResults", <<>>)]
            /\ UNCHANGED searchError
       ELSE /\ searchError' = Text("Failed to connect to API: ")
                                 \o Text(tasks[t].ret.val.message)
            /\ tasks' = [tasks EXCEPT ![t] = TReturn(@, <<>>)]
    /\ UNCHANGED <<clientVars, primaryFailed, ragVars, searchQuery, searchResults,
                   isSearching, searchMode, vectorWeight, mergeMethod, searchLimit,
                   apiCapabilities, page, mounted, vsVars, hybridVars>>

\* loadInitialResults has settled: the chain ends
mountEffect_loaded(t) ==
    /\ At(t, "mountEffect", "loaded")
    /\ tasks' = [tasks EXCEPT ![t] = TReturn(@, <<>>)]
    /\ UNCHANGED <<clientVars, primaryFailed, uiVars, hybridVars>>

\* history: the searches of the page are numbered in the order they start
NextSearchNo ==
    1 + Cardinality({n \in 1..Len(tasks) :
                        \E t \in 1..Len(tasks) : tasks[t].searchNo >= n})

\* loadInitialResults up to `await vectorClient.searchHybrid(...)`
loadInitialResults_entry(t) ==
    /\ At(t, "loadInitialResults", "entry")
    /\ isSearching' = TRUE
    /\ tasks' = [tasks EXCEPT ![t] =
          [TCall(@, "searched", <<>>, "searchHybrid", InitialSearchParams)
              EXCEPT !.searchNo = NextSearchNo]]
    /\ UNCHANGED <<clientVars, primaryFailed, ragVars, searchQuery, searchResults,
                   searchError, searchMode, vectorWeight, mergeMethod, searchLimit,
                   apiCapabilities, page, mounted, vsVars, hybridVars>>

\* mutant: the flag is not cleared
SearchFinally_Skipped == isSearching' = isSearching

\* the finally block of loadInitialResults and handleSearch
SearchFinally == isSearching' = FALSE

\* mutant: an empty result list sets no message
ShowSearch_NoEmptyMessage(t, emptyText, failText) ==
    IF tasks[t].ret.ok
    THEN /\ searchResults' = tasks[t].ret.val
         /\ searchError' = searchError
    ELSE /\ searchError' = Text(failText) \o Text(tasks[t].ret.val.message)
         /\ UNCHANGED searchResults

\* what a finished search of the page shows: the results or the error
ShowSearch(t, emptyText, failText) ==
    IF tasks[t].ret.ok
    THEN /\ searchResults' = tasks[t].ret.val
         /\ searchError' = IF Len(tasks[t].ret.val) = 0 THEN Text(emptyText) ELSE searchError
    ELSE /\ searchError' = Text(failText) \o Text(tasks[t].ret.val.message)
         /\ UNCHANGED searchResults

\* loadInitialResults after the search: show the results or the error; finally
\* clear the flag
loadInitialResults_searched(t) ==
    /\ At(t, "loadInitialResults", "searched")
    /\ ShowSearch(t, "No results found for the initial search query.",
                  "Failed to load initial results: ")
    /\ SearchFinally
    /\ tasks' = [tasks EXCEPT ![t] = TReturn(@, <<>>)]
    /\ UNCHANGED <<clientVars, primaryFailed, ragVars, searchQuery, searchMode,
                   vectorWeight, mergeMethod, searchLimit, apiCapabilities, page, mounted,
                   vsVars, hybridVars>>

\* the search form is submitted (its controls are disabled while a search is in
\* flight): handleSearch up to the await of the search chosen by the mode
handleSearch_submit(cap) ==
    /\ Idle
    /\ page = "SolanaTraders"
    /\ ~isSearching
    /\ Len(tasks) < cap
    /\ IF Trim(searchQuery) = ""
       THEN /\ tasks' = Append(tasks, TReturn(NewTask("handleSearch", "handleSearch", <<>>),
                                              <<>>))
            /\ UNCHANGED <<isSearching, searchError>>
       ELSE /\ isSearching' = TRUE
            /\ searchError' = NoError
            /\ tasks' = Append(tasks,
                  [TCall(NewTask("handleSearch", "handleSearch",
                                 [searchMode |-> searchMode,
                                  searchParams |-> ParamsOf(searchQuery, searchLimit,
                                                            vectorWeight, mergeMethod)]),
                         "searched", <<>>, SearchOperation(searchMode),
                         ParamsOf(searchQuery, searchLimit, vectorWeight, mergeMethod))
                     EXCEPT !.searchNo = NextSearchNo])
    /\ UNCHANGED <<clientVars, primaryFailed, ragVars, searchQuery, searchResults,
                   searchMode, vectorWeight, mergeMethod, searchLimit, apiCapabilities,
                   page, mounted, vsVars, hybridVars>>

\* a submission, with at most MaxTasks activations in the session
handleSearch_entry == handleSearch_submit(MaxTasks)

\* handleSearch after the search: show the results or the error; finally clear
\* the flag
handleSearch_searched(t) ==
    /\ At(t, "handleSearch", "searched")
    /\ ShowSearch(t, "No results found. Try a different search term or search method.",
                  "Search failed: ")
    /\ SearchFinally
    /\ tasks' = [tasks EXCEPT ![t] = TReturn(@, <<>>)]
    /\ UNCHANGED <<clientVars, primaryFailed, ragVars, searchQuery, searchMode,
                   vectorWeight, mergeMethod, searchLimit, apiCapabilities, page, mounted,
                   vsVars, hybridVars>>

----------------------------------------------------------------------------
(* VectorSearch: the page with a plain search form and a plain chat form.  Its
   state has the names of the search page's; here they carry the prefix vs. *)

\* the effect run on mount: healthCheck(), whose outcome is only logged
VectorSearch_mountEffect ==
    /\ Idle
    /\ page = "VectorSearch"
    /\ "VectorSearch" \notin mounted
    /\ Len(tasks) < MaxTasks
    /\ mounted' = mounted \cup {"VectorSearch"}
    /\ tasks' = Append(tasks, NewTask("VectorSearch.mountEffect", "healthCheck", <<>>))
    /\ UNCHANGED <<clientVars, primaryFailed, ragVars, searchQuery, searchResults,
                   isSearching, searchError, searchMode, vectorWeight, mergeMethod,
                   searchLimit, apiCapabilities, page, vsVars, hybridVars>>

\* onChange of the search box, which is disabled while a search is in flight
VectorSearch_setSearchQuery ==
    /\ Idle
    /\ page = "VectorSearch"
    /\ ~vsIsSearching
    /\ \E text \in Inputs : text # vsSearchQuery /\ vsSearchQuery' = text
    /\ UNCHANGED <<clientVars, tasks, primaryFailed, ragVars, pageVars, vsSearchResults,
                   vsIsSearching, vsSearchError, vsChatMessages, vsCurrentMessage,
                   vsIsLoading, hybridVars>>

\* onChange of the chat input, which is disabled while a message is in flight
VectorSearch_setCurrentMessage ==
    /\ Idle
    /\ page = "VectorSearch"
    /\ ~vsIsLoading
    /\ \E text \in Inputs : text # vsCurrentMessage /\ vsCurrentMessage' = text
    /\ UNCHANGED <<clientVars, tasks, primaryFailed, ragVars, pageVars, vsSearchQuery,
                   vsSearchResults, vsIsSearching, vsSearchError, vsChatMessages,
                   vsIsLoading, hybridVars>>

\* the search form is submitted: handleSearch up to `await searchVectors(searchQuery)`
VectorSearch_handleSearch_entry ==
    /\ Idle
    /\ page = "VectorSearch"
    /\ ~vsIsSearching
    /\ Len(tasks) < MaxTasks
    /\ IF Trim(vsSearchQuery) = ""
       THEN /\ tasks' = Append(tasks,
                  TReturn(NewTask("VectorSearch.handleSearch",
                                  "VectorSearch.handleSearch", <<>>), <<>>))
            /\ UNCHANGED <<vsIsSearching, vsSearchError>>
       ELSE /\ vsIsSearching' = TRUE
            /\ vsSearchError' = NoError
            /\ tasks' = Append(tasks,
                  TCall(NewTask("VectorSearch.handleSearch",
                                "VectorSearch.handleSearch", <<>>),
                        "searched", <<>>, "searchVectors",
                        [query |-> vsSearchQuery, limit |-> 5]))
    /\ UNCHANGED <<clientVars, primaryFailed, ragVars, pageVars, vsSearchQuery,
                   vsSearchResults, vsChatMessages, vsCurrentMessage, vsIsLoading, hybridVars>>

\* the finally block of handleSearch
VectorSearch_SearchFinally == vsIsSearching' = FALSE

\* handleSearch after the search: show the results or the error; finally clear
\* the flag
VectorSearch_handleSearch_searched(t) ==
    /\ At(t, "VectorSearch.handleSearch", "searched")
    /\ IF tasks[t].ret.ok
       THEN /\ vsSearchResults' = tasks[t].ret.val
            /\ vsSearchError' =
                  IF Len(tasks[t].ret.val) = 0
                  THEN Text("No results found. Try a different search term.")
                  ELSE vsSearchError
       ELSE /\ vsSearchError' = Text("Search failed: ") \o Text(tasks[t].ret.val.message)
            /\ UNCHANGED vsSearchResults
    /\ VectorSearch_SearchFinally
    /\ tasks' = [tasks EXCEPT ![t] = TReturn(@, <<>>)]
    /\ UNCHANGED <<clientVars, primaryFailed, ragVars, pageVars, vsSearchQuery,
                   vsChatMessages, vsCurrentMessage, vsIsLoading, hybridVars>>

\* the chat form is submitted: handleChatSubmit up to `await sendChatMessage(...)`
VectorSearch_handleChatSubmit_entry ==
    /\ Idle
    /\ page = "VectorSearch"
    /\ ~vsIsLoading
    /\ Len(tasks) < MaxTasks
    /\ IF Trim(vsCurrentMessage) = ""
       THEN /\ tasks' = Append(tasks,
                  TReturn(NewTask("VectorSearch.handleChatSubmit",
                                  "VectorSearch.handleChatSubmit", <<>>), <<>>))
            /\ UNCHANGED <<vsChatMessages, vsCurrentMessage, vsIsLoading>>
       ELSE LET userMessage == [role |-> "user", content |-> Text(vsCurrentMessage)]
                chatHistory == vsChatMessages
            IN  /\ vsChatMessages' = Append(vsChatMessages, userMessage)
                /\ vsCurrentMessage' = ""
                /\ vsIsLoading' = TRUE
                /\ tasks' = Append(tasks,
                      TCall(NewTask("VectorSearch.handleChatSubmit",
                                    "VectorSearch.handleChatSubmit", <<>>),
                            "answered", <<>>, "sendChatMessage",
                            [query |-> userMessage.content, chatHistory |-> chatHistory]))
    /\ UNCHANGED <<clientVars, primaryFailed, ragVars, pageVars, vsSearchQuery,
                   vsSearchResults, vsIsSearching, vsSearchError, hybridVars>>

\* the finally block of handleChatSubmit
VectorSearch_ChatFinally == vsIsLoading' = FALSE

\* handleChatSubmit after sendChatMessage: append the reply (and show its sources
\* as search results) or append the error; finally clear the flag
VectorSearch_handleChatSubmit_answered(t) ==
    /\ At(t, "VectorSearch.handleChatSubmit", "answered")
    /\ IF tasks[t].ret.ok
       THEN /\ vsChatMessages' = Append(vsChatMessages,
                  [role |-> "assistant", content |-> Text(tasks[t].ret.val.response)])
            /\ vsSearchResults' = IF Len(tasks[t].ret.val.sources) > 0
                                  THEN tasks[t].ret.val.sources
                                  ELSE vsSearchResults
       ELSE /\ vsChatMessages' = Append(vsChatMessages,
                  [role |-> "assistant",
                   content |-> Text("Error: ") \o Text(tasks[t].ret.val.message)])
            /\ UNCHANGED vsSearchResults
    /\ VectorSearch_ChatFinally
    /\ tasks' = [tasks EXCEPT ![t] = TReturn(@, <<>>)]
    /\ UNCHANGED <<clientVars, primaryFailed, ragVars, pageVars, vsSearchQuery,
                   vsIsSearching, vsSearchError, vsCurrentMessage, hybridVars>>

----------------------------------------------------------------------------
(* Hybrid search: VectorClient.searchHybrid builds the body it posts to
   /search/hybrid; the endpoint retrieves a vector list and a graph list and
   merges them with the requested method.  The endpoint's implementation is not
   part of the front-end sources; its merge is modelled from its documented
   behaviour.  Scores are in tenths, combined scores in hundredths. *)

\* the longest list a retrieval returns
MaxLen == 3

\* the largest limit a caller passes
MaxLimit == 10

\* no params, no body: nothing was requested yet
NoParams == [query |-> UndefStr]

\* the scores a retrieval gives to a result
Scores == {8, 9}

\* a result of the vector retrieval, at rank i with similarity s
VectorResult(i, s) ==
    [doc_id |-> i, similarity_score |-> s, relevance_score |-> UndefNum,
     combined_score |-> UndefNum]

\* a result of the graph retrieval, at rank j with relevance s
GraphResult(j, s) ==
    [doc_id |-> 100 + j, similarity_score |-> UndefNum, relevance_score |-> s,
     combined_score |-> UndefNum]

\* the score columns of a ranked list: best first
RankedScores ==
    UNION {{s \in [1..n -> Scores] : \A i \in 1..(n - 1) : s[i] >= s[i + 1]} :
             n \in 0..MaxLen}

VectorLists == {[i \in 1..Len(s) |-> VectorResult(i, s[i])] : s \in RankedScores}
GraphLists  == {[j \in 1..Len(s) |-> GraphResult(j, s[j])] : s \in RankedScores}

\* the params callers pass to searchHybrid: every field but query is optional
HybridParams ==
    {ParamsOf("q", limit, vector_weight, merge_method) :
        limit \in {UndefNum} \cup 0..MaxLimit,
        vector_weight \in {UndefNum, 0, 5, 10},
        merge_method \in {UndefStr} \cup MergeMethods}

\* the first n items of a list
Truncate(list, n) == IF Len(list) <= n THEN list ELSE SubSeq(list, 1, n)

\* a missing score counts as 0
ScoreOrZero(score) == IF score = UndefNum THEN 0 ELSE score

\* vector_weight * similarity_score + (1 - vector_weight) * relevance_score
CombinedScore(result, vector_weight) ==
    vector_weight * ScoreOrZero(result.similarity_score)
    + (10 - vector_weight) * ScoreOrZero(result.relevance_score)

\* every result of the list with its combined score
Scored(list, vector_weight) ==
    [i \in DOMAIN list |->
        [list[i] EXCEPT !.combined_score = CombinedScore(list[i], vector_weight)]]

\* r placed behind every result whose score it does not exceed
InsertByScore(sorted, r) ==
    LET k == Cardinality({i \in DOMAIN sorted :
                            sorted[i].combined_score >= r.combined_score})
    IN  SubSeq(sorted, 1, k) \o <<r>> \o SubSeq(sorted, k + 1, Len(sorted))

\* stable sort, highest combined score first
RECURSIVE SortByCombinedScore(_)
SortByCombinedScore(list) ==
    IF list = <<>> THEN <<>>
    ELSE InsertByScore(SortByCombinedScore(SubSeq(list, 1, Len(list) - 1)),
                       list[Len(list)])

\* a weighted merge that does not sort
WeightedMerge_Unsorted(vector, graph, vector_weight, limit) ==
    Truncate(Scored(vector \o graph, vector_weight), limit)

\* merge method 'weighted'
WeightedMerge(vector, graph, vector_weight, limit) ==
    Truncate(SortByCombinedScore(Scored(vector \o graph, vector_weight)), limit)

\* merge method 'interleave'; turn names the list to take from next
RECURSIVE InterleaveFrom(_, _, _, _)
InterleaveFrom(vector, graph, limit, turn) ==
    IF limit <= 0 \/ (vector = <<>> /\ graph = <<>>) THEN <<>>
    ELSE IF graph = <<>> \/ (turn = "vector" /\ vector # <<>>)
         THEN <<Head(vector)>> \o InterleaveFrom(Tail(vector), graph, limit - 1, "graph")
         ELSE <<Head(graph)>> \o InterleaveFrom(vector, Tail(graph), limit - 1, "vector")

\* an interleave merge that starts with the graph results
InterleaveMerge_GraphFirst(vector, graph, limit) ==
    InterleaveFrom(vector, graph, limit, "graph")

InterleaveMerge(vector, graph, limit) == InterleaveFrom(vector, graph, limit, "vector")

\* a separate merge that gives the extra slot of an odd limit to the graph list
SeparateMerge_FloorFirst(vector, graph, limit) ==
    Truncate(vector, limit \div 2) \o Truncate(graph, (limit + 1) \div 2)

\* merge method 'separate'
SeparateMerge(vector, graph, limit) ==
    Truncate(vector, (limit + 1) \div 2) \o Truncate(graph, limit \div 2)

\* the results the endpoint returns for a body and its two retrievals
Merge(body, vector, graph) ==
    CASE body.merge_method = "weighted" ->
           WeightedMerge(vector, graph, body.vector_weight, body.limit)
      [] body.merge_method = "interleave" ->
           InterleaveMerge(vector, graph, body.limit)
      [] body.merge_method = "separate" ->
           SeparateMerge(vector, graph, body.limit)

\* searchHybrid(params) posts its body; the endpoint runs its two retrievals
hybrid_search_retrieve ==
    /\ hybridPc = "idle"
    /\ \E params \in HybridParams, vector \in VectorLists, graph \in GraphLists :
          /\ hybridParams' = params
          /\ hybridBody' = HybridBody(params)
          /\ vectorResults' = vector
          /\ graphResults' = graph
    /\ hybridPc' = "retrieved"
    /\ UNCHANGED <<clientVars, tasks, primaryFailed, uiVars, merged>>

\* the endpoint merges the two retrievals and returns the merged list
hybrid_search_merge ==
    /\ hybridPc = "retrieved"
    /\ merged' = Merge(hybridBody, vectorResults, graphResults)
    /\ hybridPc' = "merged"
    /\ UNCHANGED <<clientVars, tasks, primaryFailed, uiVars, hybridParams,
                   hybridBody, vectorResults, graphResults>>

----------------------------------------------------------------------------
(* Initial state: the module-level singletons right after construction *)

Init ==
    /\ configuredUrl \in ConfiguredUrls
    /\ apiBaseUrl = configuredUrl
    /\ usingFallback = FALSE
    /\ tasks = <<>>
    /\ primaryFailed = FALSE
    /\ chatMessages = <<>>
    /\ currentMessage = ""
    /\ isLoading = FALSE
    /\ isStreaming = FALSE
    /\ currentSources = <<>>
    /\ searchQuery = DefaultQuery
    /\ searchResults = <<>>
    /\ isSearching = FALSE
    /\ searchError = NoError
    /\ searchMode = "hybrid"
    /\ vectorWeight = 5
    /\ mergeMethod = "weighted"
    /\ searchLimit = 5
    /\ apiCapabilities = [vector_search_available |-> TRUE,
                          knowledge_graph_available |-> TRUE]
    /\ page = "none"
    /\ mounted = {}
    /\ vsSearchQuery = ""
    /\ vsSearchResults = <<>>
    /\ vsIsSearching = FALSE
    /\ vsSearchError = NoError
    /\ vsChatMessages = <<>>
    /\ vsCurrentMessage = ""
    /\ vsIsLoading = FALSE
    /\ hybridParams = NoParams
    /\ hybridBody = NoParams
    /\ vectorResults = <<>>
    /\ graphResults = <<>>
    /\ merged = <<>>
    /\ hybridPc = "idle"

----------------------------------------------------------------------------
(* A caller of the exported client: any public operation, at any time *)

\* the search parameters callers pass
CallerParams ==
    {ParamsOf("q", 3, 7, "weighted")}

\* the public operations of the client and the arguments they are called with
PublicCalls ==
    {[fn |-> "healthCheck", args |-> <<>>], [fn |-> "getDebugInfo", args |-> <<>>],
     [fn |-> "sendChatMessage", args |-> [query |-> "q", chatHistory |-> <<>>]]}
    \cup {[fn |-> f, args |-> p] :
            f \in {"searchHybrid", "searchVectorOnly", "searchKnowledgeGraphOnly"},
            p \in CallerParams}

Invoke ==
    /\ Idle
    /\ Len(tasks) < MaxTasks
    /\ \E c \in PublicCalls : tasks' = Append(tasks, NewTask(c.fn, c.fn, c.args))
    /\ UNCHANGED <<clientVars, primaryFailed, uiVars, hybridVars>>

\* the steps of the client's functions
ClientStep ==
    \E t \in TaskIds :
        \/ switchToLocalIfNeeded_entry(t)
        \/ switchToLocalIfNeeded_probed(t)
        \/ healthCheck_entry(t)
        \/ healthCheck_switched(t)
        \/ healthCheck_sent(t)
        \/ healthCheck_retried(t)
        \/ getDebugInfo_entry(t)
        \/ getDebugInfo_switched(t)
        \/ getDebugInfo_sent(t)
        \/ searchHybrid_entry(t)
        \/ searchHybrid_switched(t)
        \/ searchHybrid_sent(t)
        \/ searchVectorOnly_entry(t)
        \/ searchVectorOnly_switched(t)
        \/ searchVectorOnly_sent(t)
        \/ searchKnowledgeGraphOnly_entry(t)
        \/ searchKnowledgeGraphOnly_switched(t)
        \/ searchKnowledgeGraphOnly_sent(t)
        \/ sendChatMessage_entry(t)
        \/ sendChatMessage_switched(t)
        \/ sendChatMessage_searched(t)
        \/ sendChatMessage_sent(t)

NextClient == Invoke \/ ClientStep

\* the client under arbitrary, possibly overlapping, public calls
SpecClient == Init /\ [][NextClient]_vars

\* the steps of a chat turn below handleChatSubmit
ChatStep ==
    \E t \in TaskIds :
        \/ generateResponse_entry(t)
        \/ generateResponse_retrieved(t)
        \/ generateResponse_answered(t)
        \/ retrieveContext_entry(t)
        \/ retrieveContext_searched(t)
        \/ sendChatMessage_entry(t)
        \/ sendChatMessage_switched(t)
        \/ sendChatMessage_searched(t)
        \/ sendChatMessage_sent(t)
        \/ searchHybrid_entry(t)
        \/ searchHybrid_switched(t)
        \/ searchHybrid_sent(t)
        \/ switchToLocalIfNeeded_entry(t)
        \/ switchToLocalIfNeeded_probed(t)

NextChat ==
    \/ render
    \/ setCurrentMessage
    \/ handleChatSubmit_entry
    \/ \E t \in TaskIds : handleChatSubmit_generated(t)
    \/ ChatStep

\* the RAG chat component on top of ChatService and the client
SpecChat == Init /\ [][NextChat]_vars

\* the steps of the functions below the handlers of the pages
PageStep ==
    \E t \in TaskIds :
        \/ mountEffect_capabilities(t)
        \/ mountEffect_healthChecked(t)
        \/ mountEffect_loaded(t)
        \/ loadInitialResults_entry(t)
        \/ loadInitialResults_searched(t)
        \/ handleSearch_searched(t)
        \/ handleChatSubmit_generated(t)
        \/ VectorSearch_handleSearch_searched(t)
        \/ VectorSearch_handleChatSubmit_answered(t)
        \/ searchVectors_entry(t)
        \/ searchVectors_searched(t)

\* what a user does on the pages
UserEvent ==
    \/ render
    \/ mountEffect
    \/ setSearchQuery
    \/ setSearchMode
    \/ handleSearch_entry
    \/ setCurrentMessage
    \/ handleChatSubmit_entry
    \/ VectorSearch_mountEffect
    \/ VectorSearch_setSearchQuery
    \/ VectorSearch_setCurrentMessage
    \/ VectorSearch_handleSearch_entry
    \/ VectorSearch_handleChatSubmit_entry

NextUI == UserEvent \/ PageStep \/ ChatStep \/ ClientStep

\* the pages on top of ChatService and the client
SpecUI == Init /\ [][NextUI]_vars

\* the steps task t can take: its code runs on, or its request is answered
Progress(t) ==
    \/ mountEffect_capabilities(t)
    \/ mountEffect_healthChecked(t)
    \/ mountEffect_loaded(t)
    \/ loadInitialResults_entry(t)
    \/ loadInitialResults_searched(t)
    \/ handleSearch_searched(t)
    \/ handleChatSubmit_generated(t)
    \/ VectorSearch_handleSearch_searched(t)
    \/ VectorSearch_handleChatSubmit_answered(t)
    \/ searchVectors_entry(t)
    \/ searchVectors_searched(t)
    \/ generateResponse_entry(t)
    \/ generateResponse_retrieved(t)
    \/ generateResponse_answered(t)
    \/ retrieveContext_entry(t)
    \/ retrieveContext_searched(t)
    \/ switchToLocalIfNeeded_entry(t)
    \/ switchToLocalIfNeeded_probed(t)
    \/ healthCheck_entry(t)
    \/ healthCheck_switched(t)
    \/ healthCheck_sent(t)
    \/ healthCheck_retried(t)
    \/ getDebugInfo_entry(t)
    \/ getDebugInfo_switched(t)
    \/ getDebugInfo_sent(t)
    \/ searchHybrid_entry(t)
    \/ searchHybrid_switched(t)
    \/ searchHybrid_sent(t)
    \/ searchVectorOnly_entry(t)
    \/ searchVectorOnly_switched(t)
    \/ searchVectorOnly_sent(t)
    \/ searchKnowledgeGraphOnly_entry(t)
    \/ searchKnowledgeGraphOnly_switched(t)
    \/ searchKnowledgeGraphOnly_sent(t)
    \/ sendChatMessage_entry(t)
    \/ sendChatMessage_switched(t)
    \/ sendChatMessage_searched(t)
    \/ sendChatMessage_sent(t)

\* the pages when the event loop keeps running and every request is answered,
\* with data or with a rejection
SpecLive == SpecUI /\ \A t \in TaskIds : WF_vars(Progress(t))

\* the steps of a search below handleSearch
SearchStep ==
    \E t \in TaskIds :
        \/ handleSearch_searched(t)
        \/ searchHybrid_entry(t)
        \/ searchHybrid_switched(t)
        \/ searchHybrid_sent(t)
        \/ searchVectorOnly_entry(t)
        \/ searchVectorOnly_switched(t)
        \/ searchVectorOnly_sent(t)
        \/ searchKnowledgeGraphOnly_entry(t)
        \/ searchKnowledgeGraphOnly_switched(t)
        \/ searchKnowledgeGraphOnly_sent(t)
        \/ switchToLocalIfNeeded_entry(t)
        \/ switchToLocalIfNeeded_probed(t)

NextSearch ==
    \/ render
    \/ setSearchMode
    \/ setVectorWeight
    \/ setMergeMethod
    \/ setSearchLimit
    \/ handleSearch_entry
    \/ SearchStep

\* the search form of the search page with its options
SpecSearch == Init /\ [][NextSearch]_vars

\* one hybrid search, from the call of searchHybrid to the merged list
NextHybrid ==
    \/ hybrid_search_retrieve
    \/ hybrid_search_merge

SpecHybrid == Init /\ [][NextHybrid]_vars

\* the steps of the mount effect, of a submitted search and of the client below them
MountStep ==
    \E t \in SearchTaskIds :
        \/ mountEffect_capabilities(t)
        \/ mountEffect_healthChecked(t)
        \/ mountEffect_loaded(t)
        \/ loadInitialResults_entry(t)
        \/ loadInitialResults_searched(t)
        \/ handleSearch_searched(t)
        \/ switchToLocalIfNeeded_entry(t)
        \/ switchToLocalIfNeeded_probed(t)
        \/ healthCheck_entry(t)
        \/ healthCheck_switched(t)
        \/ healthCheck_sent(t)
        \/ healthCheck_retried(t)
        \/ getDebugInfo_entry(t)
        \/ getDebugInfo_switched(t)
        \/ getDebugInfo_sent(t)
        \/ searchHybrid_entry(t)
        \/ searchHybrid_switched(t)
        \/ searchHybrid_sent(t)
        \/ searchVectorOnly_entry(t)
        \/ searchVectorOnly_switched(t)
        \/ searchVectorOnly_sent(t)
        \/ searchKnowledgeGraphOnly_entry(t)
        \/ searchKnowledgeGraphOnly_switched(t)
        \/ searchKnowledgeGraphOnly_sent(t)

NextMount ==
    \/ render
    \/ mountEffect
    \/ handleSearch_submit(MaxSearchTasks)
    \/ MountStep

\* the search page from its mount on, with searches submitted while it mounts
SpecMount == Init /\ [][NextMount]_vars

----------------------------------------------------------------------------
(* Properties of the endpoint resolver (SpecClient) *)

Started == 1..Len(tasks)

\* the configured URL is a primary endpoint: switchToLocalIfNeeded probes it
HasPrimary == ~IncludesLocalhost(configuredUrl)

\* C1: once a request to the primary endpoint (a probe or a real call) has been
\* rejected, no call started afterwards sends a request to the primary endpoint.
C1_StickyAfterAnyFailure ==
    \A t \in Started :
        (HasPrimary /\ tasks[t].afterFail /\ tasks[t].status = "wait")
            => tasks[t].req.url # configuredUrl

\* C2: usingFallback only ever goes from false to true; once it is true it stays
\* true, and the base URL is the local address and never again a configured
\* primary URL.
C2_FallbackOneWay ==
    [][/\ usingFallback => usingFallback'
       /\ usingFallback' => /\ apiBaseUrl' = LOCAL_URL
                            /\ HasPrimary => apiBaseUrl' # configuredUrl]_vars

\* C2 witness: the client has switched away from a primary and a call runs after it
C2_Witness ==
    /\ HasPrimary
    /\ usingFallback
    /\ \E t \in Started : tasks[t].status = "wait" /\ tasks[t].probeFailedAt = 0
                          /\ tasks[t].req.url = LOCAL_URL

\* C3: in a call whose reachability probe of the configured URL was rejected, every
\* later request of that same call goes to http://localhost:8000 and not to the
\* configured URL.
C3_FallbackInSameCall ==
    \A t \in Started :
        tasks[t].probeFailedAt > 0 =>
            /\ \A i \in (tasks[t].probeFailedAt + 1)..Len(tasks[t].sent) :
                  /\ tasks[t].sent[i].url = LOCAL_URL
                  /\ tasks[t].sent[i].url # configuredUrl
            /\ tasks[t].status = "wait" =>
                  /\ tasks[t].req.url = LOCAL_URL
                  /\ tasks[t].req.url # configuredUrl

\* C3 witness: after a rejected probe of the configured URL the call has its real
\* request out, at the local address
C3_Witness ==
    \E t \in Started :
        /\ tasks[t].probeFailedAt = 1
        /\ tasks[t].status = "wait"
        /\ tasks[t].sent[1].url = configuredUrl
        /\ tasks[t].req.path = "/api/vector-search"
        /\ tasks[t].req.url = LOCAL_URL

\* a call has settled with a rejection after two or more of its requests were
\* rejected: a first attempt and a later attempt on the fallback address
BothAttemptsFailed(t) ==
    /\ tasks[t].status = "done"
    /\ ~tasks[t].result.ok
    /\ Len(tasks[t].errs) >= 2
    /\ tasks[t].errs[Len(tasks[t].errs)].url = LOCAL_URL

\* C4 as stated: when the first attempt and the retry on the fallback address both
\* fail, the call rejects with the error of the first attempt.
C4_OriginalErrorSurfaced ==
    \A t \in Started :
        BothAttemptsFailed(t) => tasks[t].result.val = tasks[t].errs[1]

\* C4 as amended: when the first attempt and the retry on the fallback address both
\* fail, the call rejects with the error of the fallback attempt, unchanged (the
\* error object the failed fallback request produced, not that of the first attempt).
C4_FallbackErrorSurfaced ==
    \A t \in Started :
        BothAttemptsFailed(t) =>
            /\ tasks[t].result.val = tasks[t].errs[Len(tasks[t].errs)]
            /\ tasks[t].result.val # tasks[t].errs[1]

\* C4 witness: healthCheck reached the primary's probe, then its GET on the primary
\* and its retry on the fallback address were both rejected
C4_Witness ==
    \E t \in Started :
        /\ tasks[t].op = "healthCheck"
        /\ BothAttemptsFailed(t)
        /\ tasks[t].errs[1].url = REMOTE_URL
        /\ Len(tasks[t].errs) = 2
        /\ tasks[t].errs[1].n = 2

----------------------------------------------------------------------------
(* Properties of a chat turn (SpecChat) *)

\* generateResponse has just returned to handleChatSubmit in task t: the turn's
\* ChatResponse is tasks[t].ret.val, its requests are tasks[t].sent and their
\* answers tasks[t].got
TurnAnswered(t) ==
    /\ t \in Started
    /\ tasks[t].status = "run"
    /\ Top(tasks[t]).fn = "handleChatSubmit"
    /\ Top(tasks[t]).pc = "generated"

\* the requests of task t to `path`, by their place in the task's requests
RequestsTo(t, path) == {i \in 1..Len(tasks[t].sent) : tasks[t].sent[i].path = path}

Min(S) == CHOOSE i \in S : \A j \in S : i <= j

\* the search request of retrieveContext (the first search of the turn) was rejected
RetrievalFailed(t) ==
    /\ RequestsTo(t, "/api/search") # {}
    /\ LET i == Min(RequestsTo(t, "/api/search"))
       IN  i <= Len(tasks[t].got) /\ ~tasks[t].got[i].ok

\* the i-th request of task t has been answered with a rejection / with data
Rejected(t, i) == i <= Len(tasks[t].got) /\ ~tasks[t].got[i].ok
Resolved(t, i) == i <= Len(tasks[t].got) /\ tasks[t].got[i].ok

\* C5: a turn whose context retrieval failed has still issued POST /api/chat, with an
\* empty context.
C5_ChatIssuedWithEmptyContext ==
    \A t \in Started :
        (TurnAnswered(t) /\ RetrievalFailed(t)) =>
            \E i \in RequestsTo(t, "/api/chat") : tasks[t].sent[i].body.context = <<>>

\* C6 as stated: generateResponse always resolves with an assistant message of
\* non-empty content, and with empty sources when retrieval failed.
C6_NonEmptyAssistantMessage ==
    \A t \in Started :
        TurnAnswered(t) =>
            /\ tasks[t].ret.ok
            /\ tasks[t].ret.val.message.role = "assistant"
            /\ tasks[t].ret.val.message.content # Text("")
            /\ RetrievalFailed(t) => tasks[t].ret.val.sources = <<>>

\* C6 as amended: generateResponse always resolves, never rejects, with an assistant
\* message; its content is the remote reply when the chat call succeeded (empty
\* exactly when that reply is empty) and a non-empty error text otherwise; when
\* retrieval failed the sources are empty.
C6_AlwaysResolvesWithAssistantMessage ==
    \A t \in Started :
        TurnAnswered(t) =>
            /\ tasks[t].ret.ok
            /\ tasks[t].ret.val.message.role = "assistant"
            /\ IF \E i \in RequestsTo(t, "/api/chat") : Resolved(t, i)
               THEN \A i \in RequestsTo(t, "/api/chat") :
                        tasks[t].ret.val.message.content =
                            Text(tasks[t].got[i].val.response)
               ELSE /\ tasks[t].ret.val.message.content # Text("")
                    /\ Head(tasks[t].ret.val.message.content) = GenerateErrorPrefix
            /\ RetrievalFailed(t) => tasks[t].ret.val.sources = <<>>

\* C6 witness: retrieval was rejected and the turn still resolved, with a reply
C6_Witness ==
    \E t \in Started :
        /\ TurnAnswered(t)
        /\ RetrievalFailed(t)
        /\ tasks[t].ret.val.message.content = Text("answer")
        /\ tasks[t].ret.val.sources = <<>>

\* C7: a turn sends at most one POST /api/chat; when that request is rejected no
\* further request follows in the turn, and generateResponse returns an assistant
\* message holding the error's text, with empty sources.
C7_ChatFailureIsTerminal ==
    \A t \in Started :
        /\ Cardinality(RequestsTo(t, "/api/chat")) <= 1
        /\ \A i \in RequestsTo(t, "/api/chat") :
              Rejected(t, i) =>
                 /\ Len(tasks[t].sent) = i
                 /\ TurnAnswered(t) =>
                      /\ tasks[t].ret.ok
                      /\ tasks[t].ret.val.message =
                            [role |-> "assistant",
                             content |-> Text(GenerateErrorPrefix)
                                            \o Text(tasks[t].got[i].val.message)]
                      /\ tasks[t].ret.val.sources = <<>>

\* C7 witness: the chat request of a turn that had retrieved documents was rejected
C7_Witness ==
    \E t \in Started :
        /\ TurnAnswered(t)
        /\ \E i \in RequestsTo(t, "/api/chat") :
              /\ Rejected(t, i)
              /\ tasks[t].sent[i].body.context # <<>>

\* C8: in a turn whose chat call was answered, the sources of the ChatResponse are
\* the context that was sent in the turn's POST /api/chat.
C8_SourcesAreTheContextSent ==
    \A t \in Started :
        TurnAnswered(t) =>
            \A i \in RequestsTo(t, "/api/chat") :
                Resolved(t, i) =>
                    tasks[t].ret.val.sources = tasks[t].sent[i].body.context

----------------------------------------------------------------------------
(* Properties of the pages (SpecUI, SpecLive) *)

\* a call of task t started by `op` has settled
Settled(t, op) == t \in Started /\ tasks[t].op = op /\ tasks[t].status = "done"

\* C9: when every request is eventually answered, with data or with a rejection,
\* each in-flight flag a handler has set (isSearching, isLoading and isStreaming of
\* the search page and its chat, and those of the VectorSearch page) is eventually
\* false again: no flag stays true for ever.
C9_FlagsEventuallyCleared ==
    /\ []<>(~isSearching)
    /\ []<>(~isLoading)
    /\ []<>(~isStreaming)
    /\ []<>(~vsIsSearching)
    /\ []<>(~vsIsLoading)

\* C9 witness: a search of the page was rejected, its handler has run to its end
\* and the flag is false
C9_Witness ==
    \E t \in Started :
        /\ Settled(t, "handleSearch")
        /\ ~isSearching
        /\ searchError # NoError
        /\ Head(searchError) = "Search failed: "


\* history `new` is history `old` with messages added at the end, or `old` itself
Extends(old, new) ==
    /\ Len(old) <= Len(new)
    /\ \A i \in 1..Len(old) : new[i] = old[i]

\* history `new` is history `old` with its last message, an empty assistant
\* placeholder, replaced by an assistant message
FillsPlaceholder(old, new) ==
    /\ Len(old) > 0
    /\ Len(new) = Len(old)
    /\ \A i \in 1..(Len(old) - 1) : new[i] = old[i]
    /\ old[Len(old)] = PlaceholderMessage
    /\ new[Len(new)].role = "assistant"

\* C10 as stated: every change of a chat history only adds messages at the end; a
\* message at index i stays at index i with its role and content.
C10_AppendOnly ==
    [][/\ Extends(chatMessages, chatMessages')
       /\ Extends(vsChatMessages, vsChatMessages')]_vars

\* C10 as amended: every change of a chat history either adds messages at the end
\* or, in RAGChatInterface, replaces the last message, the empty assistant
\* placeholder of the turn in flight, by that turn's assistant message; every
\* other message stays at its index with its role and content.
C10_AppendOrFillPlaceholder ==
    [][/\ \/ Extends(chatMessages, chatMessages')
          \/ /\ FillsPlaceholder(chatMessages, chatMessages')
             /\ isLoading /\ ~isLoading'
       /\ Extends(vsChatMessages, vsChatMessages')]_vars

\* C10 witness: a second turn has been added behind a first, finished turn whose
\* placeholder was replaced by a reply
C10_Witness ==
    /\ Len(chatMessages) = 4
    /\ ~isLoading
    /\ chatMessages[1].role = "user"
    /\ chatMessages[2] = [role |-> "assistant", content |-> Text("answer")]
    /\ chatMessages[4].role = "assistant"
    /\ chatMessages[4].content # Text("")


\* the search awaited by the handler `fn` of task t has resolved with no results,
\* and the handler runs to its end in this step
EndsWithNoResults(t, fn) ==
    /\ At(t, fn, "searched")
    /\ tasks[t].ret.ok
    /\ tasks[t].ret.val = <<>>
    /\ tasks'[t].status = "done"

\* C11: a search that resolves with zero results is not an error: the handler
\* returns normally, not through its catch block, with results = [], its loading
\* flag false and the informational "No results found" message set.
C11_EmptyResultIsNotAnError ==
    [][\A t \in Started :
          /\ EndsWithNoResults(t, "handleSearch") =>
                /\ tasks'[t].result.ok
                /\ searchResults' = <<>>
                /\ ~isSearching'
                /\ searchError' =
                     Text("No results found. Try a different search term or search method.")
          /\ EndsWithNoResults(t, "VectorSearch.handleSearch") =>
                /\ tasks'[t].result.ok
                /\ vsSearchResults' = <<>>
                /\ ~vsIsSearching'
                /\ vsSearchError' = Text("No results found. Try a different search term.")]_vars

\* C11 witness: a search of each kind of page can end with no results and the message
C11_Witness ==
    \E t \in Started :
        \/ /\ Settled(t, "handleSearch")
           /\ searchResults = <<>>
           /\ ~isSearching
           /\ searchError =
                Text("No results found. Try a different search term or search method.")
        \/ /\ Settled(t, "VectorSearch.handleSearch")
           /\ vsSearchResults = <<>>
           /\ ~vsIsSearching
           /\ vsSearchError = Text("No results found. Try a different search term.")

----------------------------------------------------------------------------
(* Properties of the search form (SpecSearch) *)

\* the value a request carries for a parameter: the caller's when supplied, the
\* default when omitted
SuppliedOr(value, undefined, default) == IF value = undefined THEN default ELSE value

\* task t waits for the answer to the request its call of the client operation
\* `fn` has sent to `path`
Requested(t, fn, path) ==
    /\ tasks[t].status = "wait"
    /\ Top(tasks[t]).fn = fn
    /\ tasks[t].req.path = path

\* C12: the body of POST /api/search carries the caller's limit, vector_weight
\* (0 and 1 included) and merge_method unchanged whenever they are supplied; the
\* defaults 5, 0.5 and 'weighted' are used only for an omitted parameter.
C12_ParametersSentUnchanged ==
    \A t \in Started :
        Requested(t, "searchHybrid", "/api/search") =>
            LET params == Top(tasks[t]).args
                body   == tasks[t].req.body
            IN  /\ body.query = params.query
                /\ body.limit = SuppliedOr(params.limit, UndefNum, 5)
                /\ body.vector_weight = SuppliedOr(params.vector_weight, UndefNum, 5)
                /\ body.merge_method = SuppliedOr(params.merge_method, UndefStr, "weighted")


SearchPaths == {"/api/search", "/api/vector-search", "/api/kg-search"}

\* the search requests task t has sent, by their place in the task's requests
SearchRequests(t) ==
    {i \in 1..Len(tasks[t].sent) : tasks[t].sent[i].path \in SearchPaths}

\* the endpoint and the keys of the request body the spec gives for a search mode
PathOfMode(mode) ==
    CASE mode = "hybrid" -> "/api/search"
      [] mode = "vector" -> "/api/vector-search"
      [] mode = "kg"     -> "/api/kg-search"
KeysOfMode(mode) ==
    IF mode = "hybrid" THEN {"query", "limit", "vector_weight", "merge_method"}
    ELSE {"query", "limit"}

\* the values handleSearch read when the submission of task t started
Submission(t) == tasks[t].stack[Len(tasks[t].stack)].args

\* task t is a submission of the search form that has passed the blank check
Submitted(t) == tasks[t].op = "handleSearch" /\ tasks[t].status # "done"

\* C13: a search submission sends exactly one search request, to the endpoint of
\* the mode selected at submission and with that endpoint's keys: /api/search with
\* {query, limit, vector_weight, merge_method}, /api/vector-search and
\* /api/kg-search with {query, limit} only; no other search endpoint is called.
C13_OneRequestRoutedByMode ==
    \A t \in Started :
        Submitted(t) =>
            /\ Cardinality(SearchRequests(t)) <= 1
            /\ \A i \in SearchRequests(t) :
                  /\ tasks[t].sent[i].method = "POST"
                  /\ tasks[t].sent[i].path = PathOfMode(Submission(t).searchMode)
                  /\ DOMAIN tasks[t].sent[i].body = KeysOfMode(Submission(t).searchMode)
                  /\ tasks[t].sent[i].body.query = Submission(t).searchParams.query
            /\ At(t, "handleSearch", "searched") => Cardinality(SearchRequests(t)) = 1

\* C13 witness: a submission in 'kg' mode has got the answer to its one request
C13_Witness ==
    \E t \in Started :
        /\ At(t, "handleSearch", "searched")
        /\ Submission(t).searchMode = "kg"
        /\ \E i \in SearchRequests(t) : tasks[t].sent[i].path = "/api/kg-search"


\* badge is the badge the precedence combined_score > similarity_score >
\* relevance_score gives for result, 'Result' when it has none of the three
ByPrecedence(result, badge) ==
    /\ result.combined_score # UndefNum =>
          badge = [text |-> "% combined", score |-> result.combined_score]
    /\ (result.combined_score = UndefNum /\ result.similarity_score # UndefNum) =>
          badge = [text |-> "% match", score |-> result.similarity_score]
    /\ (/\ result.combined_score = UndefNum
        /\ result.similarity_score = UndefNum
        /\ result.relevance_score # UndefNum) =>
          badge = [text |-> "% relevant", score |-> result.relevance_score]
    /\ (/\ result.combined_score = UndefNum
        /\ result.similarity_score = UndefNum
        /\ result.relevance_score = UndefNum) =>
          badge = [text |-> "Result", score |-> UndefNum]

\* C14: every result a page displays has the score badge given by the precedence
\* combined_score > similarity_score > relevance_score over the fields present,
\* and the badge 'Result' when none is present.
C14_BadgeByPrecedence ==
    /\ \A i \in 1..Len(searchResults) :
          ByPrecedence(searchResults[i], ScoreBadge(searchResults[i]))
    /\ \A i \in 1..Len(vsSearchResults) :
          ByPrecedence(vsSearchResults[i], VectorSearch_ScoreBadge(vsSearchResults[i]))

----------------------------------------------------------------------------
(* Properties of a hybrid search (SpecHybrid) *)

\* the ids of the results of a list, in order
DocIds(list) == [i \in DOMAIN list |-> list[i].doc_id]

\* the hybrid search has returned
Merged == hybridPc = "merged"

\* C15: for every merge method and every non-negative limit passed to
\* searchHybrid, the search returns at most `limit` results; a limit of 0
\* returns the empty list.
C15_AtMostLimitResults ==
    (Merged /\ hybridParams.limit # UndefNum) =>
        Len(merged) <= hybridParams.limit

\* the two retrievals as one list: vector results, then graph results
Union == vectorResults \o graphResults

\* the place of the result with this id in a list
PosIn(list, doc_id) == CHOOSE i \in DOMAIN list : list[i].doc_id = doc_id

\* the combined score of a retrieved result, in hundredths, for the posted weight
WeightedScoreOf(r) ==
    hybridBody.vector_weight
        * (IF r.similarity_score = UndefNum THEN 0 ELSE r.similarity_score)
    + (10 - hybridBody.vector_weight)
        * (IF r.relevance_score = UndefNum THEN 0 ELSE r.relevance_score)

\* result a is ranked before result b: higher combined score, or the same
\* score and earlier in the union
RankedBefore(a, b) ==
    \/ WeightedScoreOf(a) > WeightedScoreOf(b)
    \/ /\ WeightedScoreOf(a) = WeightedScoreOf(b)
       /\ PosIn(Union, a.doc_id) < PosIn(Union, b.doc_id)

\* a weighted hybrid search has returned
WeightedMerged == Merged /\ hybridBody.merge_method = "weighted"

\* the example of the weighted merge: A with similarity 0.9, B with relevance 0.8
WeightedExample ==
    /\ WeightedMerged
    /\ hybridBody.vector_weight = 5
    /\ hybridBody.limit >= 2
    /\ vectorResults = <<VectorResult(1, 9)>>
    /\ graphResults = <<GraphResult(1, 8)>>

\* C16: the weighted merge returns results of the union, each with
\* combined_score = vector_weight * similarity_score + (1 - vector_weight) *
\* relevance_score (a missing score is 0), highest score first, equal scores in
\* the order of the union, and it returns the first `limit` of that ranking;
\* for weight 0.5, A (similarity 0.9) and B (relevance 0.8) it returns [A, B].
C16_WeightedMergeRanksByCombinedScore ==
    WeightedMerged =>
        /\ Len(merged) = IF Len(Union) <= hybridBody.limit
                         THEN Len(Union) ELSE hybridBody.limit
        /\ \A i \in DOMAIN merged :
              \E k \in DOMAIN Union :
                 /\ Union[k].doc_id = merged[i].doc_id
                 /\ merged[i].similarity_score = Union[k].similarity_score
                 /\ merged[i].relevance_score = Union[k].relevance_score
                 /\ merged[i].combined_score = WeightedScoreOf(Union[k])
        /\ \A i, j \in DOMAIN merged : i < j => RankedBefore(merged[i], merged[j])
        /\ \A k \in DOMAIN Union :
              (\A i \in DOMAIN merged : merged[i].doc_id # Union[k].doc_id) =>
                  \A i \in DOMAIN merged : RankedBefore(merged[i], Union[k])
        /\ WeightedExample => DocIds(merged) = <<1, 101>>

\* a weighted merge that reordered the union: the best graph result outranks
\* the best vector result
C16_Witness ==
    /\ WeightedMerged
    /\ Len(vectorResults) >= 2
    /\ Len(graphResults) >= 2
    /\ Len(merged) = hybridBody.limit
    /\ Len(merged) >= 2
    /\ Len(merged) < Len(Union)
    /\ merged[1].doc_id = 101
    /\ merged[2].doc_id = 1

\* the smaller of two numbers
Smaller(a, b) == IF a <= b THEN a ELSE b

\* the k-th result of the full alternation of the two retrievals: pairs of
\* (vector, graph) while both last, then what is left of the longer list
Alternation(k) ==
    LET both == Smaller(Len(vectorResults), Len(graphResults))
    IN  IF k <= 2 * both
        THEN IF k % 2 = 1 THEN vectorResults[(k + 1) \div 2]
                          ELSE graphResults[k \div 2]
        ELSE IF Len(vectorResults) > both THEN vectorResults[k - both]
                                          ELSE graphResults[k - both]

\* an interleave hybrid search has returned
InterleaveMerged == Merged /\ hybridBody.merge_method = "interleave"

\* the example of the interleave merge: 3 vector results, 2 graph results, limit 10
InterleaveExample ==
    /\ InterleaveMerged
    /\ Len(vectorResults) = 3
    /\ Len(graphResults) = 2
    /\ hybridBody.limit = 10

\* C17: the interleave merge alternates the next unconsumed result of
\* vectorResults and of graphResults, vector first, skipping an exhausted list,
\* until it has `limit` results or both lists are exhausted; 3 vector results,
\* 2 graph results and limit 10 give [v0, k0, v1, k1, v2].
C17_InterleaveAlternatesFromVector ==
    InterleaveMerged =>
        /\ Len(merged) = Smaller(hybridBody.limit,
                                 Len(vectorResults) + Len(graphResults))
        /\ \A k \in DOMAIN merged : merged[k] = Alternation(k)
        /\ InterleaveExample => DocIds(merged) = <<1, 101, 2, 102, 3>>

\* the example has been merged
C17_Witness ==
    /\ InterleaveExample
    /\ Len(merged) = 5

\* a separate hybrid search has returned
SeparateMerged == Merged /\ hybridBody.merge_method = "separate"

\* ceil(limit / 2) and floor(limit / 2) of the posted limit
VectorShare == (hybridBody.limit + 1) \div 2
GraphShare  == hybridBody.limit \div 2

\* the example of the separate merge: limit 5, at least 3 vector and 2 graph results
SeparateExample ==
    /\ SeparateMerged
    /\ hybridBody.limit = 5
    /\ Len(vectorResults) >= 3
    /\ Len(graphResults) >= 2

IsListTruncatedToLimit(list) ==
    /\ Len(merged) = Smaller(hybridBody.limit, Len(list))
    /\ \A k \in DOMAIN merged : merged[k].doc_id = list[k].doc_id

----------------------------------------------------------------------------
(* Properties of a client configured with a local endpoint (SpecClient) *)

\* a reachability probe (the GET of switchToLocalIfNeeded, timeout 3 s) is in flight
ProbeInFlight ==
    \E t \in Started : tasks[t].status = "wait" /\ tasks[t].req.timeout = 3000

\* C20: a client constructed with a local endpoint is in the Fallback state
\* from construction: no call issues a reachability probe, and neither the
\* fallback flag nor the base URL changes later, whatever the calls' outcomes.
C20_LocalEndpointNeverSwitches ==
    [][~HasPrimary => /\ ~ProbeInFlight'
                      /\ usingFallback' = usingFallback
                      /\ apiBaseUrl' = apiBaseUrl]_vars

----------------------------------------------------------------------------
(* Properties of concurrent calls (SpecClient) *)

\* the probe of call t was rejected and the call has gone on to its own request
FellBack(t) ==
    /\ tasks[t].probeFailedAt # 0
    /\ Len(tasks[t].sent) > tasks[t].probeFailedAt

\* C21: when the probes of concurrent calls fail, each of these calls sends its
\* real request to the local fallback endpoint, and the resolver is left as a
\* single fallback leaves it: usingFallback = true, apiBaseUrl = local address.
C21_ConcurrentFallbackIdempotent ==
    \A t \in Started :
        tasks[t].probeFailedAt # 0 =>
            /\ usingFallback
            /\ apiBaseUrl = LOCAL_URL
            /\ \A i \in (tasks[t].probeFailedAt + 1)..Len(tasks[t].sent) :
                  tasks[t].sent[i].url = LOCAL_URL

\* two calls whose probes were both rejected have both sent their real request
C21_Witness ==
    /\ Len(tasks) = 2
    /\ FellBack(1)
    /\ FellBack(2)
    /\ usingFallback

----------------------------------------------------------------------------
(* Properties of the protocol of a chat turn (SpecChat) *)

\* the requests of the running turn t to the hybrid search and to the chat endpoint
RetrievalsOf(t) == RequestsTo(t, "/api/search")
ChatCallsOf(t)  == RequestsTo(t, "/api/chat")

\* every retrieval of turn t asks for 3 results with vector_weight 0.7
RetrievalsAreBounded(t) ==
    \A i \in RetrievalsOf(t) :
        /\ tasks[t].sent[i].body.limit = 3
        /\ tasks[t].sent[i].body.vector_weight = 7

\* every chat request of turn t comes after the answers to its retrievals and
\* carries the user's message and the history before this turn
ChatCallFollowsRetrieval(t) ==
    \A c \in ChatCallsOf(t) :
        /\ RetrievalsOf(t) # {}
        /\ \A i \in RetrievalsOf(t) : i < c /\ i <= Len(tasks[t].got)
        /\ Len(chatMessages) >= 2
        /\ tasks[t].sent[c].body.query = chatMessages[Len(chatMessages) - 1].content
        /\ tasks[t].sent[c].body.chat_history
              = SubSeq(chatMessages, 1, Len(chatMessages) - 2)

\* C22: a chat turn issues exactly one hybrid retrieval (limit 3, vector_weight
\* 0.7), and issues POST /api/chat only after that retrieval was answered, with
\* the user's message and the history before the turn.
C22_OneRetrievalThenChat ==
    \A t \in Started :
        tasks[t].status # "done" =>
            /\ Cardinality(RetrievalsOf(t)) <= 1
            /\ RetrievalsAreBounded(t)
            /\ ChatCallFollowsRetrieval(t)

----------------------------------------------------------------------------
(* Properties of the in-flight flag of the search page (SpecUI) *)

\* a request started by the search page (its mount effect or a submitted
\* search) is outstanding
SearchPageRequestOutstanding ==
    \E t \in Started :
        /\ tasks[t].op \in {"mountEffect", "handleSearch"}
        /\ tasks[t].status = "wait"

\* C23: whenever a network request started by the search page (mount-time
\* getDebugInfo and healthCheck, the initial search, a submitted search) is
\* outstanding, isSearching is true.
C23_SearchingWhileRequestOutstanding ==
    SearchPageRequestOutstanding => isSearching

----------------------------------------------------------------------------
(* Properties of overlapping searches of the search page (SpecMount) *)

\* activation T has started a search of the page and the search has not finished
SearchOutstanding(T) ==
    /\ T.searchNo > 0
    /\ \E k \in 1..Len(T.stack) : T.stack[k].fn \in {"loadInitialResults", "handleSearch"}

\* activation T has started a search of the page and has shown its outcome
SearchCompleted(T) ==
    /\ T.searchNo > 0
    /\ \A k \in 1..Len(T.stack) : T.stack[k].fn \notin {"loadInitialResults", "handleSearch"}

\* the search of activation e finishes in this step
SearchCompletes(e) == SearchOutstanding(tasks[e]) /\ SearchCompleted(tasks'[e])

\* C27: a search that finishes does not overwrite the results or the message
\* of a search started after it that has already finished, and leaves
\* isSearching set while a search started after it is still outstanding; so once
\* every search has finished the page shows the outcome of the latest one.
C27_LatestSearchWins ==
    [][\A e, l \in Started :
          (SearchCompletes(e) /\ tasks[l].searchNo > tasks[e].searchNo) =>
              IF SearchOutstanding(tasks[l])
              THEN isSearching'
              ELSE /\ searchResults' = searchResults
                   /\ searchError' = searchError]_vars

----------------------------------------------------------------------------
(* Properties of the writers of the chat history (SpecUI) *)

\* the chat turns of RAGChatInterface that have started and not finished
ChatTurnsInFlight ==
    {t \in Started : tasks[t].op = "handleChatSubmit" /\ tasks[t].status # "done"}

\* C24: at most one chat turn is in flight at any time, isLoading is set for
\* as long as it is, and while it is in flight the history is written only by
\* the step that ends it: the writes of two turns never interleave.
C24_SingleActiveWriter ==
    [][/\ Cardinality(ChatTurnsInFlight') <= 1
       /\ ChatTurnsInFlight' # {} => isLoading'
       /\ (ChatTurnsInFlight # {} /\ chatMessages' # chatMessages)
             => ChatTurnsInFlight' = {}]_vars

\* a second turn is in flight, waiting for an answer, after a first one has
\* written its two messages
C24_Witness ==
    /\ Len(tasks) = 2
    /\ tasks[1].op = "handleChatSubmit"
    /\ tasks[1].status = "done"
    /\ ChatTurnsInFlight = {2}
    /\ tasks[2].status = "wait"
    /\ Len(chatMessages) = 4
    /\ isLoading

----------------------------------------------------------------------------
(* Properties of the failures shown to the user (SpecUI) *)

\* the handler that runs as activation t finishes in this step, after one of
\* its requests was rejected
FinishesAfterFailure(t) ==
    /\ tasks[t].op \in {"mountEffect", "handleSearch", "handleChatSubmit"}
    /\ page = "SolanaTraders"
    /\ tasks[t].status # "done"
    /\ tasks'[t].status = "done"
    /\ tasks[t].errs # <<>>

\* the last message of the history is an assistant message that describes one
\* of the failures of activation t
FailureDescribed(history, t) ==
    /\ history # <<>>
    /\ history[Len(history)].role = "assistant"
    /\ \E i \in 1..Len(tasks[t].errs), k \in 1..Len(history[Len(history)].content) :
          history[Len(history)].content[k] = tasks[t].errs[i].message

\* C25: when a request of a handler has failed (probe, debug info, health
\* check, context retrieval, search or chat call), the state in which the
\* handler finishes has the handler's loading indicator cleared and shows a
\* message: searchError is set, or an assistant message describes the failure.
C25_NoSilentFailure ==
    [][\A t \in Started :
          FinishesAfterFailure(t) =>
              IF tasks[t].op = "handleChatSubmit"
              THEN ~isLoading' /\ FailureDescribed(chatMessages', t)
              ELSE ~isSearching' /\ searchError' # NoError]_vars

----------------------------------------------------------------------------
(* Properties of the search mode of the search page (SpecUI) *)

\* the capability that search mode `mode` needs is reported available
ModeAvailable(mode) ==
    CASE mode = "hybrid" -> /\ apiCapabilities.vector_search_available
                            /\ apiCapabilities.knowledge_graph_available
      [] mode = "vector" -> apiCapabilities.vector_search_available
      [] mode = "kg"     -> apiCapabilities.knowledge_graph_available

\* C26 as stated: the selected search mode is one whose capability is reported
\* available: 'kg' when only the knowledge graph is, 'vector' when only vector
\* search is, 'hybrid' only when both are.
C26_SelectedModeIsAvailable == ModeAvailable(searchMode)

\* C26 as amended: when at least one of the two capabilities is reported
\* available, the selected search mode is one whose capability is available;
\* when neither is, no mode is available and the selection is left as it was.
C26_SelectedModeIsAvailableIfAnyIs ==
    [][/\ (apiCapabilities'.vector_search_available
             \/ apiCapabilities'.knowledge_graph_available)
          => ModeAvailable(searchMode)'
       /\ (/\ apiCapabilities' # apiCapabilities
           /\ ~apiCapabilities'.vector_search_available
           /\ ~apiCapabilities'.knowledge_graph_available)
          => searchMode' = searchMode]_vars

\* /api/debug has reported the knowledge graph alone and the mode is 'kg'
C26_Witness ==
    /\ ~apiCapabilities.vector_search_available
    /\ apiCapabilities.knowledge_graph_available
    /\ searchMode = "kg"

----------------------------------------------------------------------------
(* Properties of the history after a chat turn (SpecChat) *)

\* the chat turn of activation t finishes in this step
TurnCompletes(t) ==
    /\ At(t, "handleChatSubmit", "generated")
    /\ tasks'[t].status = "done"

\* the content of the assistant message of a turn whose generateResponse
\* settled with `ret`: the response, or the text of the error
OutcomeContent(ret) ==
    IF ret.ok THEN ret.val.message.content
    ELSE <<"Error: ">> \o (IF ret.val.message = "" THEN <<>> ELSE <<ret.val.message>>)

\* user, assistant, user, assistant, ...
RolesAlternate(history) ==
    \A i \in 1..Len(history) :
        history[i].role = IF i % 2 = 1 THEN "user" ELSE "assistant"

----------------------------------------------------------------------------
(* Properties of the resolver's two fields (SpecClient) *)

\* C29: in every state of a VectorClient, usingFallback = true implies
\* apiBaseUrl = 'http://localhost:8000', and usingFallback = false implies
\* apiBaseUrl is the URL given at construction.
C29_FlagAndBaseUrlCohere ==
    /\ usingFallback => apiBaseUrl = "http://localhost:8000"
    /\ ~usingFallback => apiBaseUrl = configuredUrl

\* the client has switched away from a remote URL and a call runs on the fallback
C29_Witness ==
    /\ configuredUrl = REMOTE_URL
    /\ usingFallback
    /\ apiBaseUrl # configuredUrl
    /\ \E t \in Started : tasks[t].status = "wait" /\ tasks[t].req.url = apiBaseUrl

----------------------------------------------------------------------------
(* Properties of blank submissions (SpecUI) *)

\* an input that is empty or only white space
Blank(text) == text \in {"", " "}

\* a form is submitted in this step, and the input it reads is blank
BlankSubmission ==
    /\ Len(tasks') = Len(tasks) + 1
    /\ LET op == tasks'[Len(tasks')].op
       IN  \/ op = "handleSearch" /\ Blank(searchQuery)
           \/ op = "handleChatSubmit" /\ Blank(currentMessage)
           \/ op = "VectorSearch.handleSearch" /\ Blank(vsSearchQuery)
           \/ op = "VectorSearch.handleChatSubmit" /\ Blank(vsCurrentMessage)

\* C30: submitting an empty or white-space input is a no-op: the handler
\* returns at once, sends no request, and leaves the results, the error
\* message, the loading flags and the chat history as they were.
C30_BlankSubmissionIsNoOp ==
    [][BlankSubmission =>
          /\ tasks'[Len(tasks')].status = "done"
          /\ tasks'[Len(tasks')].sent = <<>>
          /\ SubSeq(tasks', 1, Len(tasks)) = tasks
          /\ UNCHANGED <<searchResults, searchError, isSearching, chatMessages,
                         isLoading, isStreaming, currentSources>>
          /\ UNCHANGED <<vsSearchResults, vsSearchError, vsIsSearching,
                         vsChatMessages, vsIsLoading>>
          /\ UNCHANGED clientVars]_vars

\* a search and a chat message of white space have been submitted on the
\* search page, and nothing is shown or in flight
C30_Witness ==
    /\ Len(tasks) = 2
    /\ tasks[1].op = "handleSearch"
    /\ tasks[2].op = "handleChatSubmit"
    /\ tasks[1].searchNo = 0
    /\ \A t \in Started : tasks[t].status = "done"
    /\ searchQuery = " "
    /\ currentMessage = " "
    /\ chatMessages = <<>>
    /\ searchResults = <<>>
    /\ searchError = NoError

====
